---- MODULE Spec2Model ----
(***************************************************************************)
(* A model of the PCAPNG codec of pcap-file-tokio: the block framing       *)
(* (RawBlock), the block body codecs, the option TLV codec, PcapNgParser   *)
(* and PcapNgWriter.                                                       *)
(*                                                                         *)
(* Representation.  A byte is a number 0..255 and a slice is a sequence of *)
(* bytes.  A u32 is kept as its four bytes, most significant first, and a  *)
(* u64 / i64 as its eight bytes, most significant first, so that no value  *)
(* leaves the range of the checker's integers; a u16 and a usize are       *)
(* numbers.  Reading a u32 in little-endian order therefore reverses the   *)
(* four bytes read, and reading it in big-endian order keeps them.         *)
(***************************************************************************)
EXTENDS Integers, Sequences, FiniteSets, TLC

VARIABLES
    slice,      \* the byte window handed to RawBlock::from_slice or to opts_from_slice
    raw_out,    \* the last result of RawBlock::from_slice, with its byte order
    block,      \* a Block value and the byte order it is encoded in, or the option decoded
    encoded,    \* what Block::write_to wrote for it and returned
    decoded,    \* what Block::from_slice, or opts_from_slice, made of the bytes
    file,       \* the bytes of the capture handed to the parser or the reader
    src,        \* the bytes the parser has not consumed yet
    parser,     \* PcapNgParser: its section and its interfaces
    returned,   \* the blocks the parser has returned, in order
    call,       \* the last call on the parser: its arguments and its result
    writer,     \* PcapNgWriter: its section, its interfaces and its sink
    wrote,      \* the last call on the writer: its arguments and its result
    source,     \* the chunks the byte source of a reader delivers, one at each read
    reader,     \* PcapNgReader on that source: its parser and its ReadBuffer
    whole,      \* PcapNgReader on a source that delivers the same bytes in one chunk
    got,        \* the last call on reader: its arguments and its result
    ref,        \* the result of the same call on whole
    pc          \* where the loop that drains the reader is: "new", "call", "test", "done"

rawVars == <<slice, raw_out>>

codecVars == <<block, encoded, decoded>>

parserVars == <<file, src, parser, returned, call>>

writerVars == <<writer, wrote>>

readerVars == <<source, reader, whole, got, ref, pc>>

vars == <<rawVars, codecVars, parserVars, writerVars, readerVars>>

(***************************************************************************)
(* Bounds of the model.                                                    *)
(***************************************************************************)
\* Number of 32-bit words that follow the type and length words of a frame.
MaxPayloadWords == 3
\* Number of bytes that may be cut from the end of a frame.
MaxChop == 3
\* Longest packet data, string and opaque option value of the block corpus.
MaxDataLen == 4
\* Number of blocks that follow the first Section Header of a capture.
MaxBlocks == 3
\* Number of calls made on a writer after its construction.
MaxWrites == 3
\* Number of 32-bit words in the body of a block of the fuzzing inputs.
MaxFuzzWords == 3
\* Number of blocks that follow the Section Header of a capture handed to a reader.
MaxRead == 2
\* Number of bytes that may be missing at the end of a capture handed to a reader.
MaxCut == 2
\* Longest value of the option handed to opts_from_slice.
MaxOptionLen == 17
\* Number of bytes that may follow the 24 bytes of a PCAP header.
MaxTrail == 2

(***************************************************************************)
(* Byte-level primitives (byteorder / tokio_byteorder reads and writes).   *)
(***************************************************************************)
Endiannesses == {"Big", "Little"}

OtherEndianness(e) == IF e = "Big" THEN "Little" ELSE "Big"

Reverse(s) == [i \in 1..Len(s) |-> s[Len(s) + 1 - i]]

Take(s, n) == SubSeq(s, 1, n)

Drop(s, n) == SubSeq(s, n + 1, Len(s))

RECURSIVE Flatten(_)
Flatten(ws) == IF ws = <<>> THEN <<>> ELSE Head(ws) \o Flatten(Tail(ws))

\* read_u32::<B>() of the first four bytes of s (s has at least four).
ReadU32(B, s) == IF B = "Big" THEN Take(s, 4) ELSE Reverse(Take(s, 4))

\* write_u32::<B>(v)
WriteU32(B, v) == IF B = "Big" THEN v ELSE Reverse(v)

\* u32::swap_bytes
swap_bytes(v) == Reverse(v)

\* `v as usize`.  A value of 2^24 or more is represented by 2^24: every
\* slice of the model is shorter than that, so each comparison of a length
\* field with a slice length has the value the code computes.
AsUsize(v) == IF v[1] = 0 THEN (v[2] * 256 + v[3]) * 256 + v[4] ELSE 16777216

\* `n as u32` for a usize n below 2^31.
AsU32(n) == <<(n \div 16777216) % 256, (n \div 65536) % 256, (n \div 256) % 256, n % 256>>

\* `v % 4` of a u32
U32Mod4(v) == v[4] % 4

(***************************************************************************)
(* Results.  A panic of the code (a failed unwrap, a slice index out of    *)
(* range) is the outcome Panic, so that its absence is a checked property. *)
(***************************************************************************)
Ok(rem, val) == [ok |-> TRUE, rem |-> rem, val |-> val]

Err(e) == [ok |-> FALSE, err |-> e]

Panic == [ok |-> FALSE, err |-> "Panic"]

None == [none |-> TRUE]

(***************************************************************************)
(* Block framing: RawBlock::from_slice.                                    *)
(***************************************************************************)
SECTION_HEADER_BLOCK == <<10, 13, 13, 10>>
INTERFACE_DESCRIPTION_BLOCK == <<0, 0, 0, 1>>
PACKET_BLOCK == <<0, 0, 0, 2>>
SIMPLE_PACKET_BLOCK == <<0, 0, 0, 3>>
NAME_RESOLUTION_BLOCK == <<0, 0, 0, 4>>
INTERFACE_STATISTIC_BLOCK == <<0, 0, 0, 5>>
ENHANCED_PACKET_BLOCK == <<0, 0, 0, 6>>
SYSTEMD_JOURNAL_EXPORT_BLOCK == <<0, 0, 0, 9>>

\* The byte-order magic as read big-endian from a big-endian section ...
MagicBig == <<26, 43, 60, 77>>
\* ... and from a little-endian section.
MagicLittle == <<77, 60, 43, 26>>

RawBlock(type_, initial_len, body, trailer_len) ==
    [type_ |-> type_, initial_len |-> initial_len, body |-> body, trailer_len |-> trailer_len]

\* inner_parse without the comparison of the trailer with the initial length.
inner_parse_no_trailer_check(B, s, type_, initial_len) ==
    IF U32Mod4(initial_len) # 0 THEN Err("InvalidField")
    ELSE IF AsUsize(initial_len) < 12 THEN Err("InvalidField")
    ELSE IF Len(s) < AsUsize(initial_len) - 8 THEN Err("IncompleteBuffer")
    ELSE LET body_len == AsUsize(initial_len) - 12
             rem == Drop(s, body_len)
         IN  Ok(Drop(rem, 4), RawBlock(type_, initial_len, Take(s, body_len), ReadU32(B, rem)))

\* inner_parse asking for the whole block before it validates the length field.
inner_parse_length_first(B, s, type_, initial_len) ==
    IF Len(s) < AsUsize(initial_len) - 8 THEN Err("IncompleteBuffer")
    ELSE IF U32Mod4(initial_len) # 0 THEN Err("InvalidField")
    ELSE IF AsUsize(initial_len) < 12 THEN Err("InvalidField")
    ELSE LET body_len == AsUsize(initial_len) - 12
             rem == Drop(s, body_len)
         IN  IF initial_len # ReadU32(B, rem) THEN Err("InvalidField")
             ELSE Ok(Drop(rem, 4), RawBlock(type_, initial_len, Take(s, body_len), ReadU32(B, rem)))

\* inner_parse without the check that the length is a multiple of 4.
inner_parse_unaligned(B, s, type_, initial_len) ==
    IF AsUsize(initial_len) < 12 THEN Err("InvalidField")
    ELSE IF Len(s) < AsUsize(initial_len) - 8 THEN Err("IncompleteBuffer")
    ELSE LET body_len == AsUsize(initial_len) - 12
             rem == Drop(s, body_len)
         IN  IF initial_len # ReadU32(B, rem) THEN Err("InvalidField")
             ELSE Ok(Drop(rem, 4), RawBlock(type_, initial_len, Take(s, body_len), ReadU32(B, rem)))

inner_parse(B, s, type_, initial_len) ==
    IF U32Mod4(initial_len) # 0 THEN Err("InvalidField")
    ELSE IF AsUsize(initial_len) < 12 THEN Err("InvalidField")
    ELSE IF Len(s) < AsUsize(initial_len) - 8 THEN Err("IncompleteBuffer")
    ELSE LET body_len == AsUsize(initial_len) - 12
             body == Take(s, body_len)
             rem == Drop(s, body_len)
         IN  IF Len(rem) < 4 THEN Panic
             ELSE LET trailer_len == ReadU32(B, rem)
                  IN  IF initial_len # trailer_len THEN Err("InvalidField")
                      ELSE Ok(Drop(rem, 4), RawBlock(type_, initial_len, body, trailer_len))

\* RawBlock::from_slice without the Section Header bootstrap: every block is
\* framed in the caller's byte order.
RawBlock_from_slice_caller_order(B, s) ==
    IF Len(s) < 12 THEN Err("IncompleteBuffer")
    ELSE inner_parse(B, Drop(s, 8), ReadU32(B, s), ReadU32(B, Drop(s, 4)))

RawBlock_from_slice(B, s) ==
    IF Len(s) < 12 THEN Err("IncompleteBuffer")
    ELSE LET type_ == ReadU32(B, s)
             s1 == Drop(s, 4)
         IN  IF type_ = SECTION_HEADER_BLOCK
             THEN LET initial_len == ReadU32("Big", s1)
                      s2 == Drop(s1, 4)
                      magic == ReadU32("Big", s2)
                  IN  CASE magic = MagicBig -> inner_parse("Big", s2, type_, initial_len)
                        [] magic = MagicLittle -> inner_parse("Little", s2, type_, swap_bytes(initial_len))
                        [] OTHER -> Err("InvalidField")
             ELSE inner_parse(B, Drop(s1, 4), type_, ReadU32(B, s1))

(***************************************************************************)
(* More primitives: 16- and 64-bit reads and writes, padding, UTF-8.       *)
(***************************************************************************)
\* read_u16::<B>() of the first two bytes of s, as a number.
ReadU16(B, s) == IF B = "Big" THEN s[1] * 256 + s[2] ELSE s[2] * 256 + s[1]

\* write_u16::<B>(n as u16)
WriteU16(B, n) ==
    IF B = "Big" THEN <<(n \div 256) % 256, n % 256>> ELSE <<n % 256, (n \div 256) % 256>>

\* read_u64::<B>() / read_i64::<B>() of the first eight bytes of s.
ReadU64(B, s) == IF B = "Big" THEN Take(s, 8) ELSE Reverse(Take(s, 8))

\* write_u64::<B>(v) / write_i64::<B>(v)
WriteU64(B, v) == IF B = "Big" THEN v ELSE Reverse(v)

\* (4 - len % 4) % 4
PadLen(n) == (4 - (n % 4)) % 4

\* &[0_u8; 3][..pad_len]
Zeros(n) == [i \in 1..n |-> 0]

\* A successful result that carries no remainder.
Some(v) == [ok |-> TRUE, val |-> v]

\* `let r = v;` followed by the code F that uses r: v is computed once.
Bind(v, F(_)) == F(v)

(***************************************************************************)
(* std::time::Duration: whole seconds as a u64 (its eight bytes, the most  *)
(* significant first) and a number of nanoseconds below 10^9.  A u64 and a *)
(* u128 are their 8 and 16 bytes, the most significant first.              *)
(***************************************************************************)
Duration(secs, nanos) == [secs |-> secs, nanos |-> nanos]

\* v >> 9 of a u64 v, as seven bytes.
Shr9(v) == [j \in 1..7 |-> (IF j = 1 THEN 0 ELSE (v[j - 1] % 2) * 128) + (v[j] \div 2)]

\* The long division of the bytes w by 5^9, byte after byte: the bytes of the
\* quotient and the remainder.
RECURSIVE div_1953125(_, _, _, _)
div_1953125(w, j, quotient, remainder) ==
    IF j > Len(w) THEN [quotient |-> quotient, remainder |-> remainder]
    ELSE Bind(remainder * 256 + w[j],
              LAMBDA x : div_1953125(w, j + 1, Append(quotient, x \div 1953125), x % 1953125))

\* Duration::from_nanos(nanos: u64): nanos / NANOS_PER_SEC seconds and
\* nanos % NANOS_PER_SEC nanoseconds.  With 10^9 = 2^9 * 5^9, the quotient is
\* (nanos >> 9) / 5^9, and the remainder is that of this division, shifted
\* back, plus the nine bits shifted out.
Duration_from_nanos(v) ==
    Bind(div_1953125(Shr9(v), 1, <<0>>, 0),
         LAMBDA d : Duration(d.quotient, d.remainder * 512 + (v[7] % 2) * 256 + v[8]))

\* Byte k of a value of n bytes, counted from the least significant byte (byte 0), 0 beyond it.
ByteLE(v, k) == IF k >= 0 /\ k < Len(v) THEN v[Len(v) - k] ELSE 0

\* secs * 10^9 + nanos, byte after byte from the least significant, as the 16 bytes of a u128
\* (the bytes of 10^9 are 59, 154, 202 and 0).
RECURSIVE secs_to_nanos(_, _, _, _)
secs_to_nanos(d, k, carry, out) ==
    IF k > 15 THEN out
    ELSE Bind(ByteLE(d.secs, k - 1) * 202 + ByteLE(d.secs, k - 2) * 154 + ByteLE(d.secs, k - 3) * 59
                  + ByteLE(AsU32(d.nanos), k) + carry,
              LAMBDA x : secs_to_nanos(d, k + 1, x \div 256, <<x % 256>> \o out))

\* Duration::as_nanos: secs as u128 * NANOS_PER_SEC + nanos as u128.
Duration_as_nanos(d) == secs_to_nanos(d, 0, 0, <<>>)

\* What a write returns: the bytes appended to the writer and the count the
\* function reports.
Written(bytes, n) == [bytes |-> bytes, n |-> n]

IsCont(b) == b >= 128 /\ b <= 191

\* std::str::from_utf8(s).is_ok()
RECURSIVE IsUtf8(_)
IsUtf8(s) ==
    IF s = <<>> THEN TRUE
    ELSE LET b == s[1]
             n == Len(s)
         IN  CASE b <= 127 -> IsUtf8(Drop(s, 1))
               [] b >= 194 /\ b <= 223 -> n >= 2 /\ IsCont(s[2]) /\ IsUtf8(Drop(s, 2))
               [] b = 224 -> n >= 3 /\ s[2] >= 160 /\ s[2] <= 191 /\ IsCont(s[3]) /\ IsUtf8(Drop(s, 3))
               [] (b >= 225 /\ b <= 236) \/ b \in {238, 239} ->
                     n >= 3 /\ IsCont(s[2]) /\ IsCont(s[3]) /\ IsUtf8(Drop(s, 3))
               [] b = 237 -> n >= 3 /\ s[2] >= 128 /\ s[2] <= 159 /\ IsCont(s[3]) /\ IsUtf8(Drop(s, 3))
               [] b = 240 ->
                     n >= 4 /\ s[2] >= 144 /\ s[2] <= 191 /\ IsCont(s[3]) /\ IsCont(s[4]) /\ IsUtf8(Drop(s, 4))
               [] b >= 241 /\ b <= 243 ->
                     n >= 4 /\ IsCont(s[2]) /\ IsCont(s[3]) /\ IsCont(s[4]) /\ IsUtf8(Drop(s, 4))
               [] b = 244 ->
                     n >= 4 /\ s[2] >= 128 /\ s[2] <= 143 /\ IsCont(s[3]) /\ IsCont(s[4]) /\ IsUtf8(Drop(s, 4))
               [] OTHER -> FALSE

(***************************************************************************)
(* The option TLV codec.  A block kind's option enumeration is the table   *)
(* of its `match code` arms: the code, the variant, the type of the value  *)
(* and the length the arm insists on, if it checks one.                    *)
(***************************************************************************)
\* An arm that checks no length.
Row(code, name, ty) == [code |-> code, name |-> name, ty |-> ty, fixed |-> FALSE, len |-> 0]

\* An arm that starts with `if slice.len() != len { return Err(InvalidField) }`.
FixedRow(code, name, ty, len) == [code |-> code, name |-> name, ty |-> ty, fixed |-> TRUE, len |-> len]

SectionHeaderOptions ==
    {Row(1, "Comment", "utf8"), Row(2, "Hardware", "utf8"),
     Row(3, "OS", "utf8"), Row(4, "UserApplication", "utf8")}

InterfaceDescriptionOptions ==
    {Row(1, "Comment", "utf8"), Row(2, "IfName", "utf8"),
     Row(3, "IfDescription", "utf8"), FixedRow(4, "IfIpv4Addr", "bytes", 8),
     FixedRow(5, "IfIpv6Addr", "bytes", 17), FixedRow(6, "IfMacAddr", "bytes", 6),
     FixedRow(7, "IfEuIAddr", "u64", 8), FixedRow(8, "IfSpeed", "u64", 8),
     FixedRow(9, "IfTsResol", "u8", 1), FixedRow(10, "IfTzone", "u32", 1),
     Row(11, "IfFilter", "nonempty"), Row(12, "IfOs", "utf8"),
     FixedRow(13, "IfFcsLen", "u8", 1), FixedRow(14, "IfTsOffset", "u64", 8),
     Row(15, "IfHardware", "utf8")}

EnhancedPacketOptions ==
    {Row(1, "Comment", "utf8"), FixedRow(2, "Flags", "u32", 4),
     Row(3, "Hash", "bytes"), FixedRow(4, "DropCount", "u64", 8)}

NameResolutionOptions ==
    {Row(1, "Comment", "utf8"), Row(2, "NsDnsName", "utf8"),
     FixedRow(3, "NsDnsIpv4Addr", "bytes", 4), FixedRow(4, "NsDnsIpv6Addr", "bytes", 16)}

InterfaceStatisticsOptions ==
    {Row(1, "Comment", "utf8"), Row(2, "IsbStartTime", "u64"),
     Row(3, "IsbEndTime", "u64"), Row(4, "IsbIfRecv", "u64"),
     Row(5, "IsbIfDrop", "u64"), Row(6, "IsbFilterAccept", "u64"),
     Row(7, "IsbOsDrop", "u64"), Row(8, "IsbUsrDeliv", "u64")}

\* The options of the obsolete Packet block.
PacketOptions ==
    {Row(1, "Comment", "utf8"), FixedRow(2, "Flags", "u32", 4), Row(3, "Hash", "bytes")}

OptionTable(K) ==
    CASE K = "SectionHeader" -> SectionHeaderOptions
      [] K = "InterfaceDescription" -> InterfaceDescriptionOptions
      [] K = "EnhancedPacket" -> EnhancedPacketOptions
      [] K = "NameResolution" -> NameResolutionOptions
      [] K = "InterfaceStatistics" -> InterfaceStatisticsOptions
      [] K = "Packet" -> PacketOptions

UnknownOption(code, length, value) ==
    [name |-> "Unknown", code |-> code, length |-> length, value |-> value]

CustomBinaryOption_from_slice(B, code, s) ==
    IF Len(s) < 4 THEN Err("IncompleteBuffer")
    ELSE Some([name |-> "CustomBinary", code |-> code, pen |-> ReadU32(B, s), value |-> Drop(s, 4)])

CustomUtf8Option_from_slice(B, code, s) ==
    IF Len(s) < 4 THEN Err("IncompleteBuffer")
    ELSE IF ~IsUtf8(Drop(s, 4)) THEN Err("Utf8Error")
    ELSE Some([name |-> "CustomUtf8", code |-> code, pen |-> ReadU32(B, s), value |-> Drop(s, 4)])

Opt(name, value) == [name |-> name, value |-> value]

\* The same without the length check of the arm.
TypedOption_from_slice_unchecked(B, row, s) ==
    CASE row.ty = "utf8" -> IF IsUtf8(s) THEN Some(Opt(row.name, s)) ELSE Err("Utf8Error")
      [] row.ty = "bytes" -> Some(Opt(row.name, s))
      [] row.ty = "nonempty" -> IF s = <<>> THEN Err("InvalidField") ELSE Some(Opt(row.name, s))
      [] row.ty = "u8" -> IF Len(s) < 1 THEN Err("IncompleteBuffer") ELSE Some(Opt(row.name, s[1]))
      [] row.ty = "u32" -> IF Len(s) < 4 THEN Err("IncompleteBuffer") ELSE Some(Opt(row.name, ReadU32(B, s)))
      [] row.ty = "u64" -> IF Len(s) < 8 THEN Err("IncompleteBuffer") ELSE Some(Opt(row.name, ReadU64(B, s)))

\* One arm of a `match code`: the length check, if the arm has one, and then
\* the read of the value.
TypedOption_from_slice(B, row, s) ==
    IF row.fixed /\ Len(s) # row.len THEN Err("InvalidField")
    ELSE CASE row.ty = "utf8" -> IF IsUtf8(s) THEN Some(Opt(row.name, s)) ELSE Err("Utf8Error")
           [] row.ty = "bytes" -> Some(Opt(row.name, s))
           [] row.ty = "nonempty" -> IF s = <<>> THEN Err("InvalidField") ELSE Some(Opt(row.name, s))
           [] row.ty = "u8" -> IF Len(s) < 1 THEN Err("IncompleteBuffer") ELSE Some(Opt(row.name, s[1]))
           [] row.ty = "u32" -> IF Len(s) < 4 THEN Err("IncompleteBuffer") ELSE Some(Opt(row.name, ReadU32(B, s)))
           [] row.ty = "u64" -> IF Len(s) < 8 THEN Err("IncompleteBuffer") ELSE Some(Opt(row.name, ReadU64(B, s)))

\* <K>Option::from_slice(code, length, slice)
Option_from_slice(K, B, code, length, s) ==
    IF \E row \in OptionTable(K) : row.code = code
    THEN TypedOption_from_slice(B, CHOOSE row \in OptionTable(K) : row.code = code, s)
    ELSE IF code \in {2988, 19372} THEN CustomUtf8Option_from_slice(B, code, s)
    ELSE IF code \in {2989, 19373} THEN CustomBinaryOption_from_slice(B, code, s)
    ELSE Some(UnknownOption(code, length, s))

\* The `while !slice.is_empty()` loop of opts_from_slice.
RECURSIVE opts_loop(_, _, _, _)
opts_loop(K, B, s, options) ==
    IF s = <<>> THEN Err("InvalidField")
    ELSE IF Len(s) < 4 THEN Err("InvalidField")
    ELSE LET code == ReadU16(B, s)
             length == ReadU16(B, Drop(s, 2))
             s1 == Drop(s, 4)
             pad_len == PadLen(length)
         IN  IF code = 0 THEN Ok(s1, options)
             ELSE IF Len(s1) < length + pad_len THEN Err("InvalidField")
             ELSE Bind(Option_from_slice(K, B, code, length, Take(s1, length)),
                       LAMBDA opt :
                           IF ~opt.ok THEN opt
                           ELSE opts_loop(K, B, Drop(s1, length + pad_len), Append(options, opt.val)))

\* PcapNgOption::opts_from_slice
opts_from_slice(K, B, s) ==
    IF s = <<>> THEN Ok(s, <<>>) ELSE opts_loop(K, B, s, <<>>)

\* The same with the padding counted in the length field.
write_bytes_opt_to_padded_length(B, code, value) ==
    LET len == Len(value)
        pad_len == PadLen(len)
    IN  Written(WriteU16(B, code) \o WriteU16(B, len + pad_len) \o value \o Zeros(pad_len), len + pad_len + 4)

\* WriteOptTo for Cow<[u8]>, Cow<str> and UnknownOption
write_bytes_opt_to(B, code, value) ==
    LET len == Len(value)
        pad_len == PadLen(len)
    IN  Written(WriteU16(B, code) \o WriteU16(B, len) \o value \o Zeros(pad_len), len + pad_len + 4)

\* WriteOptTo for u8
write_u8_opt_to(B, code, value) ==
    Written(WriteU16(B, code) \o WriteU16(B, 1) \o <<value>> \o Zeros(3), 8)

\* WriteOptTo for u32
write_u32_opt_to(B, code, value) ==
    Written(WriteU16(B, code) \o WriteU16(B, 4) \o WriteU32(B, value), 8)

\* WriteOptTo for u64
write_u64_opt_to(B, code, value) ==
    Written(WriteU16(B, code) \o WriteU16(B, 8) \o WriteU64(B, value), 12)

\* WriteOptTo for CustomBinaryOption and CustomUtf8Option
write_custom_opt_to(B, code, opt) ==
    LET len == Len(opt.value) + 4
        pad_len == PadLen(len)
    IN  Written(WriteU16(B, code) \o WriteU16(B, len) \o WriteU32(B, opt.pen) \o opt.value \o Zeros(pad_len),
                len + pad_len + 4)

\* <K>Option::write_to
Option_write_to(K, B, opt) ==
    IF opt.name \in {"CustomBinary", "CustomUtf8"} THEN write_custom_opt_to(B, opt.code, opt)
    ELSE IF opt.name = "Unknown" THEN write_bytes_opt_to(B, opt.code, opt.value)
    ELSE LET row == CHOOSE r \in OptionTable(K) : r.name = opt.name
         IN  CASE row.ty \in {"utf8", "bytes", "nonempty"} -> write_bytes_opt_to(B, row.code, opt.value)
               [] row.ty = "u8" -> write_u8_opt_to(B, row.code, opt.value)
               [] row.ty = "u32" -> write_u32_opt_to(B, row.code, opt.value)
               [] row.ty = "u64" -> write_u64_opt_to(B, row.code, opt.value)

RECURSIVE write_each_opt(_, _, _)
write_each_opt(K, B, opts) ==
    IF opts = <<>> THEN Written(<<>>, 0)
    ELSE Bind(Option_write_to(K, B, Head(opts)),
              LAMBDA w :
                  Bind(write_each_opt(K, B, Tail(opts)),
                       LAMBDA rest : Written(w.bytes \o rest.bytes, w.n + rest.n)))

\* write_opts_to that ends every list, also the empty one, with an end option.
write_opts_to_always_ended(K, B, opts) ==
    Bind(write_each_opt(K, B, opts),
         LAMBDA w : Written(w.bytes \o WriteU16(B, 0) \o WriteU16(B, 0), w.n + 4))

\* PcapNgOption::write_opts_to
write_opts_to(K, B, opts) ==
    LET have_opt == opts # <<>>
    IN  Bind(write_each_opt(K, B, opts),
             LAMBDA w :
                 IF have_opt THEN Written(w.bytes \o WriteU16(B, 0) \o WriteU16(B, 0), w.n + 4) ELSE w)

(***************************************************************************)
(* Block body codecs: <Kind>Block::from_slice and <Kind>Block::write_to.   *)
(* The 64-bit timestamp of an Interface Statistics block is kept as its    *)
(* eight bytes, the high word first.                                       *)
(***************************************************************************)
SectionHeaderBlock_from_slice(B, s) ==
    IF Len(s) < 16 THEN Err("InvalidField")
    ELSE LET magic == ReadU32("Big", s)
         IN  IF magic \notin {MagicBig, MagicLittle} THEN Err("InvalidField")
             ELSE LET endianness == IF magic = MagicBig THEN "Big" ELSE "Little"
                      s1 == Drop(s, 4)
                  IN  Bind(opts_from_slice("SectionHeader", endianness, Drop(s1, 12)),
                           LAMBDA o :
                               IF ~o.ok THEN o
                               ELSE Ok(o.rem, [kind |-> "SectionHeader",
                                               endianness |-> endianness,
                                               major_version |-> ReadU16(endianness, s1),
                                               minor_version |-> ReadU16(endianness, Drop(s1, 2)),
                                               section_length |-> ReadU64(endianness, Drop(s1, 4)),
                                               options |-> o.val]))

SectionHeaderBlock_write_to(B, b) ==
    Bind(write_opts_to("SectionHeader", B, b.options),
         LAMBDA o :
             Written((IF b.endianness = "Big" THEN MagicBig ELSE MagicLittle)
                         \o WriteU16(B, b.major_version) \o WriteU16(B, b.minor_version)
                         \o WriteU64(B, b.section_length) \o o.bytes,
                     16 + o.n))

\* DataLink::from(u32) and u32::from(DataLink): the link type is carried as
\* its 32-bit code.
DataLink_from(n) == n

u32_from_DataLink(linktype) == linktype

InterfaceDescriptionBlock_from_slice(B, s) ==
    IF Len(s) < 8 THEN Err("InvalidField")
    ELSE IF ReadU16(B, Drop(s, 2)) # 0 THEN Err("InvalidField")
    ELSE Bind(opts_from_slice("InterfaceDescription", B, Drop(s, 8)),
              LAMBDA o :
                  IF ~o.ok THEN o
                  ELSE Ok(o.rem, [kind |-> "InterfaceDescription",
                                  linktype |-> DataLink_from(ReadU16(B, s)),
                                  snaplen |-> ReadU32(B, Drop(s, 4)),
                                  options |-> o.val]))

InterfaceDescriptionBlock_write_to(B, b) ==
    Bind(write_opts_to("InterfaceDescription", B, b.options),
         LAMBDA o :
             Written(WriteU16(B, u32_from_DataLink(b.linktype)) \o WriteU16(B, 0)
                         \o WriteU32(B, b.snaplen) \o o.bytes,
                     8 + o.n))

\* ((timestamp_high as u64) << 32) + timestamp_low as u64
shl32_add(timestamp_high, timestamp_low) == timestamp_high \o timestamp_low

\* The same without the shift.
shr32_as_u32_unshifted(timestamp) == SubSeq(timestamp, 13, 16)

\* (timestamp >> 32) as u32, of a u128
shr32_as_u32(timestamp) == SubSeq(timestamp, 9, 12)

\* (timestamp & 0xFFFFFFFF) as u32, of a u128
low32_as_u32(timestamp) == SubSeq(timestamp, 13, 16)

\* The same with the options read right after the data, the padding not skipped.
EnhancedPacketBlock_from_slice_unpadded(B, s) ==
    IF Len(s) < 20 THEN Err("InvalidField")
    ELSE LET captured_len == ReadU32(B, Drop(s, 12))
             s1 == Drop(s, 20)
             pad_len == PadLen(U32Mod4(captured_len))
             tot_len == AsUsize(captured_len) + pad_len
         IN  IF Len(s1) < tot_len THEN Err("InvalidField")
             ELSE Bind(opts_from_slice("EnhancedPacket", B, Drop(s1, AsUsize(captured_len))),
                       LAMBDA o :
                           IF ~o.ok THEN o
                           ELSE Ok(o.rem, [kind |-> "EnhancedPacket",
                                           interface_id |-> ReadU32(B, s),
                                           timestamp |-> Duration_from_nanos(
                                               shl32_add(ReadU32(B, Drop(s, 4)), ReadU32(B, Drop(s, 8)))),
                                           original_len |-> ReadU32(B, Drop(s, 16)),
                                           data |-> Take(s1, AsUsize(captured_len)),
                                           options |-> o.val]))

EnhancedPacketBlock_from_slice(B, s) ==
    IF Len(s) < 20 THEN Err("InvalidField")
    ELSE LET captured_len == ReadU32(B, Drop(s, 12))
             s1 == Drop(s, 20)
             pad_len == PadLen(U32Mod4(captured_len))
             tot_len == AsUsize(captured_len) + pad_len
         IN  IF Len(s1) < tot_len THEN Err("InvalidField")
             ELSE Bind(opts_from_slice("EnhancedPacket", B, Drop(s1, tot_len)),
                       LAMBDA o :
                           IF ~o.ok THEN o
                           ELSE Ok(o.rem, [kind |-> "EnhancedPacket",
                                           interface_id |-> ReadU32(B, s),
                                           timestamp |-> Duration_from_nanos(
                                               shl32_add(ReadU32(B, Drop(s, 4)), ReadU32(B, Drop(s, 8)))),
                                           original_len |-> ReadU32(B, Drop(s, 16)),
                                           data |-> Take(s1, AsUsize(captured_len)),
                                           options |-> o.val]))

EnhancedPacketBlock_write_to(B, b) ==
    LET pad_len == PadLen(Len(b.data))
        timestamp == Duration_as_nanos(b.timestamp)
    IN  Bind(write_opts_to("EnhancedPacket", B, b.options),
             LAMBDA o :
                 Written(WriteU32(B, b.interface_id)
                             \o WriteU32(B, shr32_as_u32(timestamp)) \o WriteU32(B, low32_as_u32(timestamp))
                             \o WriteU32(B, AsU32(Len(b.data))) \o WriteU32(B, b.original_len)
                             \o b.data \o Zeros(pad_len) \o o.bytes,
                         20 + Len(b.data) + pad_len + o.n))

SimplePacketBlock_from_slice(B, s) ==
    IF Len(s) < 4 THEN Err("InvalidField")
    ELSE Ok(<<>>, [kind |-> "SimplePacket", original_len |-> ReadU32(B, s), data |-> Drop(s, 4)])

SimplePacketBlock_write_to(B, b) ==
    LET pad_len == PadLen(Len(b.data))
    IN  Written(WriteU32(B, b.original_len) \o b.data \o Zeros(pad_len), 4 + Len(b.data) + pad_len)

SystemdJournalExportBlock_from_slice(B, s) ==
    Ok(<<>>, [kind |-> "SystemdJournalExport", journal_entry |-> s])

SystemdJournalExportBlock_write_to(B, b) ==
    LET pad_len == PadLen(Len(b.journal_entry))
    IN  Written(b.journal_entry \o Zeros(pad_len), Len(b.journal_entry) + pad_len)

InterfaceStatisticsBlock_from_slice(B, s) ==
    IF Len(s) < 12 THEN Err("InvalidField")
    ELSE Bind(opts_from_slice("InterfaceStatistics", B, Drop(s, 12)),
              LAMBDA o :
                  IF ~o.ok THEN o
                  ELSE Ok(o.rem, [kind |-> "InterfaceStatistics",
                                  interface_id |-> ReadU32(B, s),
                                  timestamp |-> ReadU64(B, Drop(s, 4)),
                                  options |-> o.val]))

InterfaceStatisticsBlock_write_to(B, b) ==
    Bind(write_opts_to("InterfaceStatistics", B, b.options),
         LAMBDA o : Written(WriteU32(B, b.interface_id) \o WriteU64(B, b.timestamp) \o o.bytes, 12 + o.n))

UnknownBlock_new(type_, length, value) ==
    [kind |-> "Unknown", type_ |-> type_, length |-> length, value |-> value]

UnknownBlock_write_to(B, b) == Written(b.value, Len(b.value))

\* The obsolete Packet block: the Enhanced Packet layout with a 16-bit
\* interface id and a 16-bit drop count in place of the 32-bit interface id.
PacketBlock_from_slice(B, s) ==
    IF Len(s) < 20 THEN Err("InvalidField")
    ELSE LET captured_len == ReadU32(B, Drop(s, 12))
             s1 == Drop(s, 20)
             tot_len == AsUsize(captured_len) + PadLen(U32Mod4(captured_len))
         IN  IF Len(s1) < tot_len THEN Err("InvalidField")
             ELSE Bind(opts_from_slice("Packet", B, Drop(s1, tot_len)),
                       LAMBDA o :
                           IF ~o.ok THEN o
                           ELSE Ok(o.rem, [kind |-> "Packet",
                                           interface_id |-> ReadU16(B, s),
                                           drop_count |-> ReadU16(B, Drop(s, 2)),
                                           timestamp |-> ReadU32(B, Drop(s, 4)) \o ReadU32(B, Drop(s, 8)),
                                           original_len |-> ReadU32(B, Drop(s, 16)),
                                           data |-> Take(s1, AsUsize(captured_len)),
                                           options |-> o.val]))

PacketBlock_write_to(B, b) ==
    LET pad_len == PadLen(Len(b.data))
    IN  Bind(write_opts_to("Packet", B, b.options),
             LAMBDA o :
                 Written(WriteU16(B, b.interface_id) \o WriteU16(B, b.drop_count)
                             \o WriteU32(B, Take(b.timestamp, 4)) \o WriteU32(B, Drop(b.timestamp, 4))
                             \o WriteU32(B, AsU32(Len(b.data))) \o WriteU32(B, b.original_len)
                             \o b.data \o Zeros(pad_len) \o o.bytes,
                         20 + Len(b.data) + pad_len + o.n))

(***************************************************************************)
(* Name Resolution: records, then options.                                 *)
(***************************************************************************)
\* The position of the first 0 byte of s, or Len(s) + 1.
RECURSIVE FirstZero(_, _)
FirstZero(s, i) == IF i > Len(s) \/ s[i] = 0 THEN i ELSE FirstZero(s, i + 1)

\* `for name in slice.split(|&b| b == 0)`: names up to the first empty one.
RECURSIVE names_loop(_, _)
names_loop(s, names) ==
    LET z == FirstZero(s, 1)
        name == Take(s, z - 1)
    IN  IF name = <<>> THEN Some(names)
        ELSE IF ~IsUtf8(name) THEN Err("Utf8Error")
        ELSE IF z > Len(s) THEN Some(Append(names, name))
        ELSE names_loop(Drop(s, z), Append(names, name))

\* Ipv4Record::from_slice (addr_len = 4) and Ipv6Record::from_slice (16)
IpRecord_from_slice(rec, addr_len, s) ==
    IF Len(s) < addr_len + 2 THEN Err("InvalidField")
    ELSE Bind(names_loop(Drop(s, addr_len), <<>>),
              LAMBDA names :
                  IF ~names.ok THEN names
                  ELSE IF names.val = <<>> THEN Err("InvalidField")
                  ELSE Some([rec |-> rec, ip_addr |-> Take(s, addr_len), names |-> names.val]))

RECURSIVE write_names(_)
write_names(names) ==
    IF names = <<>> THEN Written(<<>>, 0)
    ELSE Bind(write_names(Tail(names)),
              LAMBDA rest : Written(Head(names) \o <<0>> \o rest.bytes, Len(Head(names)) + 1 + rest.n))

\* Ipv4Record::write_to (addr_len = 4) and Ipv6Record::write_to (16)
IpRecord_write_to(addr_len, a) ==
    Bind(write_names(a.names), LAMBDA w : Written(a.ip_addr \o w.bytes, addr_len + w.n))

RecordEnd == [rec |-> "End"]

Record_from_slice(B, s) ==
    IF Len(s) < 2 THEN Err("IncompleteBuffer")
    ELSE IF Len(s) < 4 THEN Err("IncompleteBuffer")
    ELSE LET type_ == ReadU16(B, s)
             length == ReadU16(B, Drop(s, 2))
             pad_len == PadLen(length)
             s1 == Drop(s, 4)
         IN  IF Len(s1) < length THEN Err("InvalidField")
             ELSE LET value == Take(s1, length)
                      len == length + pad_len
                  IN  Bind(CASE type_ = 0 -> IF length # 0 THEN Err("InvalidField") ELSE Some(RecordEnd)
                             [] type_ = 1 -> IpRecord_from_slice("Ipv4", 4, value)
                             [] type_ = 2 -> IpRecord_from_slice("Ipv6", 16, value)
                             [] OTHER -> Some([rec |-> "Unknown", type_ |-> type_, length |-> length,
                                               value |-> value]),
                           LAMBDA record :
                               IF ~record.ok THEN record
                               ELSE IF len > Len(s1) THEN Panic
                               ELSE Ok(Drop(s1, len), record.val))

Record_write_to(B, r) ==
    CASE r.rec = "End" -> Written(WriteU16(B, 0) \o WriteU16(B, 0), 4)
      [] r.rec \in {"Ipv4", "Ipv6"} ->
            Bind(IpRecord_write_to(IF r.rec = "Ipv4" THEN 4 ELSE 16, r),
                 LAMBDA a :
                     LET len == a.n
                         pad_len == PadLen(len)
                     IN  Written(WriteU16(B, IF r.rec = "Ipv4" THEN 1 ELSE 2) \o WriteU16(B, len)
                                     \o a.bytes \o Zeros(pad_len),
                                 4 + len + pad_len))
      [] r.rec = "Unknown" ->
            LET len == Len(r.value)
                pad_len == PadLen(len)
            IN  Written(WriteU16(B, r.type_) \o WriteU16(B, r.length) \o r.value \o Zeros(pad_len),
                        4 + len + pad_len)

\* The `loop` of NameResolutionBlock::from_slice.
RECURSIVE records_loop(_, _, _)
records_loop(B, s, records) ==
    Bind(Record_from_slice(B, s),
         LAMBDA r :
             IF ~r.ok THEN r
             ELSE IF r.val = RecordEnd THEN Ok(r.rem, records)
             ELSE records_loop(B, r.rem, Append(records, r.val)))

NameResolutionBlock_from_slice(B, s) ==
    Bind(records_loop(B, s, <<>>),
         LAMBDA r :
             IF ~r.ok THEN r
             ELSE Bind(opts_from_slice("NameResolution", B, r.rem),
                       LAMBDA o :
                           IF ~o.ok THEN o
                           ELSE Ok(o.rem, [kind |-> "NameResolution", records |-> r.val,
                                           options |-> o.val])))

RECURSIVE write_records(_, _)
write_records(B, records) ==
    IF records = <<>> THEN Written(<<>>, 0)
    ELSE Bind(Record_write_to(B, Head(records)),
              LAMBDA w :
                  Bind(write_records(B, Tail(records)),
                       LAMBDA rest : Written(w.bytes \o rest.bytes, w.n + rest.n)))

NameResolutionBlock_write_to(B, b) ==
    Bind(write_records(B, b.records),
         LAMBDA r :
             Bind(Record_write_to(B, RecordEnd),
                  LAMBDA e :
                      Bind(write_opts_to("NameResolution", B, b.options),
                           LAMBDA o : Written(r.bytes \o e.bytes \o o.bytes, r.n + e.n + o.n))))

(***************************************************************************)
(* Block: the tagged variant, its decoder and its encoder.                 *)
(***************************************************************************)
Body_from_slice(B, type_, body) ==
    CASE type_ = SECTION_HEADER_BLOCK -> SectionHeaderBlock_from_slice("Big", body)
      [] type_ = INTERFACE_DESCRIPTION_BLOCK -> InterfaceDescriptionBlock_from_slice(B, body)
      [] type_ = PACKET_BLOCK -> PacketBlock_from_slice(B, body)
      [] type_ = SIMPLE_PACKET_BLOCK -> SimplePacketBlock_from_slice(B, body)
      [] type_ = NAME_RESOLUTION_BLOCK -> NameResolutionBlock_from_slice(B, body)
      [] type_ = INTERFACE_STATISTIC_BLOCK -> InterfaceStatisticsBlock_from_slice(B, body)
      [] type_ = ENHANCED_PACKET_BLOCK -> EnhancedPacketBlock_from_slice(B, body)
      [] type_ = SYSTEMD_JOURNAL_EXPORT_BLOCK -> SystemdJournalExportBlock_from_slice(B, body)

KnownTypes ==
    {SECTION_HEADER_BLOCK, INTERFACE_DESCRIPTION_BLOCK, PACKET_BLOCK, SIMPLE_PACKET_BLOCK,
     NAME_RESOLUTION_BLOCK, INTERFACE_STATISTIC_BLOCK, ENHANCED_PACKET_BLOCK,
     SYSTEMD_JOURNAL_EXPORT_BLOCK}

\* Block::try_from_raw_block / RawBlock::try_into_block: the block, or the error.
try_from_raw_block(B, raw_block) ==
    IF raw_block.type_ \in KnownTypes
    THEN Bind(Body_from_slice(B, raw_block.type_, raw_block.body),
              LAMBDA r : IF r.ok THEN Some(r.val) ELSE r)
    ELSE Some(UnknownBlock_new(raw_block.type_, raw_block.initial_len, raw_block.body))

\* Block::from_slice
Block_from_slice(B, s) ==
    Bind(RawBlock_from_slice(B, s),
         LAMBDA r :
             IF ~r.ok THEN r
             ELSE Bind(try_from_raw_block(B, r.val),
                       LAMBDA b : IF ~b.ok THEN b ELSE Ok(r.rem, b.val)))

\* The `match self` of Block::write_to: the body writer and the block code.
Body_write_to(B, b) ==
    CASE b.kind = "SectionHeader" -> SectionHeaderBlock_write_to(B, b)
      [] b.kind = "InterfaceDescription" -> InterfaceDescriptionBlock_write_to(B, b)
      [] b.kind = "Packet" -> PacketBlock_write_to(B, b)
      [] b.kind = "SimplePacket" -> SimplePacketBlock_write_to(B, b)
      [] b.kind = "NameResolution" -> NameResolutionBlock_write_to(B, b)
      [] b.kind = "InterfaceStatistics" -> InterfaceStatisticsBlock_write_to(B, b)
      [] b.kind = "EnhancedPacket" -> EnhancedPacketBlock_write_to(B, b)
      [] b.kind = "SystemdJournalExport" -> SystemdJournalExportBlock_write_to(B, b)
      [] b.kind = "Unknown" -> UnknownBlock_write_to(B, b)

BlockCode(b) ==
    CASE b.kind = "SectionHeader" -> SECTION_HEADER_BLOCK
      [] b.kind = "InterfaceDescription" -> INTERFACE_DESCRIPTION_BLOCK
      [] b.kind = "Packet" -> PACKET_BLOCK
      [] b.kind = "SimplePacket" -> SIMPLE_PACKET_BLOCK
      [] b.kind = "NameResolution" -> NAME_RESOLUTION_BLOCK
      [] b.kind = "InterfaceStatistics" -> INTERFACE_STATISTIC_BLOCK
      [] b.kind = "EnhancedPacket" -> ENHANCED_PACKET_BLOCK
      [] b.kind = "SystemdJournalExport" -> SYSTEMD_JOURNAL_EXPORT_BLOCK
      [] b.kind = "Unknown" -> b.type_

\* inner_write_to with the padding left out of the length field.
inner_write_to_unpadded_len(B, b) ==
    Bind(Body_write_to(B, b),
         LAMBDA data :
             LET pad_len == PadLen(data.n)
                 block_len == data.n + 12
             IN  Written(WriteU32(B, BlockCode(b)) \o WriteU32(B, AsU32(block_len)) \o data.bytes
                             \o Zeros(pad_len) \o WriteU32(B, AsU32(block_len)),
                         block_len))

\* Block::write_to: inner_write_to(block, block_code, writer)
inner_write_to(B, b) ==
    Bind(Body_write_to(B, b),
         LAMBDA data :
             LET data_len == data.n
                 pad_len == PadLen(data_len)
                 block_len == data_len + pad_len + 12
             IN  Written(WriteU32(B, BlockCode(b)) \o WriteU32(B, AsU32(block_len)) \o data.bytes
                             \o Zeros(pad_len) \o WriteU32(B, AsU32(block_len)),
                         block_len))

Block_write_to(B, b) == inner_write_to(B, b)

(***************************************************************************)
(* PcapNgParser.  A call returns its result and the parser it leaves.      *)
(***************************************************************************)
PcapNgParser(section, interfaces) == [section |-> section, interfaces |-> interfaces]

Called(res, p) == [res |-> res, parser |-> p]

\* PcapNgParser::new: the result carries the parser as its value.
PcapNgParser_new(s) ==
    Bind(Block_from_slice("Big", s),
         LAMBDA r :
             IF ~r.ok THEN r
             ELSE IF r.val.kind # "SectionHeader" THEN Err("InvalidField")
             ELSE Ok(r.rem, PcapNgParser(r.val, <<>>)))

\* next_raw_block_inner that keeps the interfaces of the section before.
next_raw_block_inner_no_clear(B, p, s) ==
    Bind(RawBlock_from_slice(B, s),
         LAMBDA r :
             IF ~r.ok THEN Called(r, p)
             ELSE IF r.val.type_ \notin {SECTION_HEADER_BLOCK, INTERFACE_DESCRIPTION_BLOCK} THEN Called(r, p)
             ELSE Bind(try_from_raw_block(B, r.val),
                       LAMBDA b :
                           IF ~b.ok THEN Called(b, p)
                           ELSE IF r.val.type_ = SECTION_HEADER_BLOCK
                           THEN Called(r, PcapNgParser(b.val, p.interfaces))
                           ELSE Called(r, PcapNgParser(p.section, Append(p.interfaces, b.val)))))

\* next_raw_block_inner that keeps the section it had.
next_raw_block_inner_stale_section(B, p, s) ==
    Bind(RawBlock_from_slice(B, s),
         LAMBDA r :
             IF ~r.ok THEN Called(r, p)
             ELSE IF r.val.type_ \notin {SECTION_HEADER_BLOCK, INTERFACE_DESCRIPTION_BLOCK} THEN Called(r, p)
             ELSE Bind(try_from_raw_block(B, r.val),
                       LAMBDA b :
                           IF ~b.ok THEN Called(b, p)
                           ELSE IF r.val.type_ = SECTION_HEADER_BLOCK
                           THEN Called(r, PcapNgParser(p.section, <<>>))
                           ELSE Called(r, PcapNgParser(p.section, Append(p.interfaces, b.val)))))

\* next_raw_block_inner that forgets the interfaces when the frame is not there yet.
next_raw_block_inner_forgetful(B, p, s) ==
    Bind(RawBlock_from_slice(B, s),
         LAMBDA r :
             IF ~r.ok THEN Called(r, PcapNgParser(p.section, <<>>))
             ELSE IF r.val.type_ \notin {SECTION_HEADER_BLOCK, INTERFACE_DESCRIPTION_BLOCK} THEN Called(r, p)
             ELSE Bind(try_from_raw_block(B, r.val),
                       LAMBDA b :
                           IF ~b.ok THEN Called(b, p)
                           ELSE IF r.val.type_ = SECTION_HEADER_BLOCK
                           THEN Called(r, PcapNgParser(b.val, <<>>))
                           ELSE Called(r, PcapNgParser(p.section, Append(p.interfaces, b.val)))))

\* PcapNgParser::next_raw_block_inner::<B>
next_raw_block_inner(B, p, s) ==
    Bind(RawBlock_from_slice(B, s),
         LAMBDA r :
             IF ~r.ok THEN Called(r, p)
             ELSE IF r.val.type_ = SECTION_HEADER_BLOCK
             THEN Bind(try_from_raw_block(B, r.val),
                       LAMBDA b :
                           IF ~b.ok THEN Called(b, p)
                           ELSE IF b.val.kind # "SectionHeader" THEN Called(Panic, p)
                           ELSE Called(r, PcapNgParser(b.val, <<>>)))
             ELSE IF r.val.type_ = INTERFACE_DESCRIPTION_BLOCK
             THEN Bind(try_from_raw_block(B, r.val),
                       LAMBDA b :
                           IF ~b.ok THEN Called(b, p)
                           ELSE IF b.val.kind # "InterfaceDescription" THEN Called(Panic, p)
                           ELSE Called(r, PcapNgParser(p.section, Append(p.interfaces, b.val))))
             ELSE Called(r, p))

\* PcapNgParser::next_block
next_block(p, s) ==
    LET B == p.section.endianness
    IN  Bind(next_raw_block_inner(B, p, s),
             LAMBDA c :
                 IF ~c.res.ok THEN c
                 ELSE Bind(try_from_raw_block(B, c.res.val),
                           LAMBDA b :
                               IF ~b.ok THEN Called(b, c.parser)
                               ELSE Called(Ok(c.res.rem, b.val), c.parser)))

\* PcapNgParser::next_raw_block
next_raw_block(p, s) == next_raw_block_inner(p.section.endianness, p, s)

(***************************************************************************)
(* RawBlock::write_to and PcapNgWriter.  The sink is a Vec<u8>: a write to *)
(* it does not fail.                                                       *)
(***************************************************************************)
RawBlock_write_to(B, raw_block) ==
    Written(WriteU32(B, raw_block.type_) \o WriteU32(B, raw_block.initial_len) \o raw_block.body
                \o WriteU32(B, raw_block.trailer_len),
            Len(raw_block.body) + 6)

PcapNgWriter(section, interfaces, sink) ==
    [section |-> section, interfaces |-> interfaces, sink |-> sink]

InvalidInterfaceId(interface_id) == [ok |-> FALSE, err |-> "InvalidInterfaceId", id |-> interface_id]

\* PcapNgWriter::with_section_header
with_section_header(section) ==
    PcapNgWriter(section, <<>>, Block_write_to(section.endianness, section).bytes)

Wrote(res, w) == [res |-> res, writer |-> w]

\* The second `match` of write_block: the block goes out in the byte order of
\* the section the writer has by then.
write_block_out(w, b) ==
    Bind(Block_write_to(w.section.endianness, b),
         LAMBDA out : Wrote(Some(out.n), PcapNgWriter(w.section, w.interfaces, w.sink \o out.bytes)))

\* write_block without the check of the interface id.
write_block_unchecked(w, b) ==
    CASE b.kind = "SectionHeader" -> write_block_out(PcapNgWriter(b, <<>>, w.sink), b)
      [] b.kind = "InterfaceDescription" ->
            write_block_out(PcapNgWriter(w.section, Append(w.interfaces, b), w.sink), b)
      [] OTHER -> write_block_out(w, b)

\* write_block that writes a Section Header in the byte order of the section before it.
write_block_old_order(w, b) ==
    CASE b.kind = "SectionHeader" ->
            Bind(Block_write_to(w.section.endianness, b),
                 LAMBDA out : Wrote(Some(out.n), PcapNgWriter(b, <<>>, w.sink \o out.bytes)))
      [] b.kind = "InterfaceDescription" ->
            write_block_out(PcapNgWriter(w.section, Append(w.interfaces, b), w.sink), b)
      [] b.kind \in {"InterfaceStatistics", "EnhancedPacket"} ->
            IF AsUsize(b.interface_id) >= Len(w.interfaces)
            THEN Wrote(InvalidInterfaceId(b.interface_id), w)
            ELSE write_block_out(w, b)
      [] OTHER -> write_block_out(w, b)

\* PcapNgWriter::write_block
write_block(w, b) ==
    CASE b.kind = "SectionHeader" -> write_block_out(PcapNgWriter(b, <<>>, w.sink), b)
      [] b.kind = "InterfaceDescription" ->
            write_block_out(PcapNgWriter(w.section, Append(w.interfaces, b), w.sink), b)
      [] b.kind \in {"InterfaceStatistics", "EnhancedPacket"} ->
            IF AsUsize(b.interface_id) >= Len(w.interfaces)
            THEN Wrote(InvalidInterfaceId(b.interface_id), w)
            ELSE write_block_out(w, b)
      [] OTHER -> write_block_out(w, b)

\* PcapNgWriter::write_raw_block: `inner::<B>` with B the byte order of the
\* section the writer has on entry.
write_raw_block(w, raw_block) ==
    LET B == w.section.endianness
        out == RawBlock_write_to(B, raw_block)
    IN  IF raw_block.type_ = SECTION_HEADER_BLOCK
        THEN Bind(try_from_raw_block(B, raw_block),
                  LAMBDA b :
                      IF ~b.ok THEN Wrote(b, w)
                      ELSE IF b.val.kind # "SectionHeader" THEN Wrote(Panic, w)
                      ELSE Wrote(Some(out.n), PcapNgWriter(b.val, w.interfaces, w.sink \o out.bytes)))
        ELSE Wrote(Some(out.n), PcapNgWriter(w.section, w.interfaces, w.sink \o out.bytes))

(***************************************************************************)
(* PCAP: the global header, the packet records and PcapParser.             *)
(***************************************************************************)
PCAP_MAGIC_MICRO == <<161, 178, 195, 212>>

PCAP_MAGIC_NANO == <<161, 178, 60, 77>>

PcapHeader(version_major, version_minor, ts_correction, ts_accuracy, snaplen, datalink, ts_resolution, endianness) ==
    [version_major |-> version_major, version_minor |-> version_minor,
     ts_correction |-> ts_correction, ts_accuracy |-> ts_accuracy, snaplen |-> snaplen,
     datalink |-> datalink, ts_resolution |-> ts_resolution, endianness |-> endianness]

\* The same with the fields read big-endian whatever the magic number says.
init_pcap_header_big_endian(B, s, ts_resolution, endianness) ==
    Ok(Drop(s, 20),
       PcapHeader(ReadU16("Big", s), ReadU16("Big", Drop(s, 2)), ReadU32("Big", Drop(s, 4)),
                  ReadU32("Big", Drop(s, 8)), ReadU32("Big", Drop(s, 12)),
                  DataLink_from(ReadU32("Big", Drop(s, 16))), ts_resolution, endianness))

\* init_pcap_header::<B>: the six fields that follow the magic number.
init_pcap_header(B, s, ts_resolution, endianness) ==
    Ok(Drop(s, 20),
       PcapHeader(ReadU16(B, s), ReadU16(B, Drop(s, 2)), ReadU32(B, Drop(s, 4)), ReadU32(B, Drop(s, 8)),
                  ReadU32(B, Drop(s, 12)), DataLink_from(ReadU32(B, Drop(s, 16))),
                  ts_resolution, endianness))

\* PcapHeader::from_slice: the magic number is read big-endian.
PcapHeader_from_slice(s) ==
    IF Len(s) < 24 THEN Err("IncompleteBuffer")
    ELSE LET magic_number == ReadU32("Big", s)
         IN  IF magic_number = PCAP_MAGIC_MICRO THEN init_pcap_header("Big", Drop(s, 4), "MicroSecond", "Big")
             ELSE IF magic_number = PCAP_MAGIC_NANO THEN init_pcap_header("Big", Drop(s, 4), "NanoSecond", "Big")
             ELSE IF magic_number = Reverse(PCAP_MAGIC_MICRO)
             THEN init_pcap_header("Little", Drop(s, 4), "MicroSecond", "Little")
             ELSE IF magic_number = Reverse(PCAP_MAGIC_NANO)
             THEN init_pcap_header("Little", Drop(s, 4), "NanoSecond", "Little")
             ELSE Err("InvalidField")

\* The same with the microsecond magic number for every header.
PcapHeader_write_to_micro(header) ==
    LET B == header.endianness
    IN  Written(WriteU32(B, PCAP_MAGIC_MICRO) \o WriteU16(B, header.version_major)
                    \o WriteU16(B, header.version_minor) \o WriteU32(B, header.ts_correction)
                    \o WriteU32(B, header.ts_accuracy) \o WriteU32(B, header.snaplen)
                    \o WriteU32(B, u32_from_DataLink(header.datalink)),
                24)

\* PcapHeader::write_to, in the byte order of the header.
PcapHeader_write_to(header) ==
    LET B == header.endianness
        magic_number == IF header.ts_resolution = "MicroSecond" THEN PCAP_MAGIC_MICRO ELSE PCAP_MAGIC_NANO
    IN  Written(WriteU32(B, magic_number) \o WriteU16(B, header.version_major)
                    \o WriteU16(B, header.version_minor) \o WriteU32(B, header.ts_correction)
                    \o WriteU32(B, header.ts_accuracy) \o WriteU32(B, header.snaplen)
                    \o WriteU32(B, u32_from_DataLink(header.datalink)),
                24)

\* RawPcapPacket::from_slice::<B>: the 16-byte record header and the data it counts.
RawPcapPacket_from_slice(B, s) ==
    IF Len(s) < 16 THEN Err("IncompleteBuffer")
    ELSE LET incl_len == ReadU32(B, Drop(s, 8))
         IN  IF Len(s) - 16 < AsUsize(incl_len) THEN Err("IncompleteBuffer")
             ELSE Ok(Drop(s, 16 + AsUsize(incl_len)),
                     [ts_sec |-> ReadU32(B, s), ts_frac |-> ReadU32(B, Drop(s, 4)),
                      incl_len |-> incl_len, orig_len |-> ReadU32(B, Drop(s, 12)),
                      data |-> SubSeq(s, 17, 16 + AsUsize(incl_len))])

\* PcapPacket::from_slice::<B>: the record, rejected when it holds more than snaplen.
PcapPacket_from_slice(B, s, ts_resolution, snaplen) ==
    Bind(RawPcapPacket_from_slice(B, s),
         LAMBDA r :
             IF ~r.ok THEN r
             ELSE IF AsUsize(r.val.incl_len) > AsUsize(snaplen) THEN Err("InvalidField")
             ELSE Ok(r.rem, [timestamp |-> <<r.val.ts_sec, r.val.ts_frac>>, ts_resolution |-> ts_resolution,
                             orig_len |-> r.val.orig_len, data |-> r.val.data]))

PcapParser(header) == [header |-> header]

\* PcapParser::new: the result carries the parser as its value.
PcapParser_new(s) ==
    Bind(PcapHeader_from_slice(s), LAMBDA r : IF ~r.ok THEN r ELSE Ok(r.rem, PcapParser(r.val)))

\* PcapParser::next_packet
PcapParser_next_packet(p, s) ==
    Called(PcapPacket_from_slice(p.header.endianness, s, p.header.ts_resolution, p.header.snaplen), p)

\* PcapParser::next_raw_packet
PcapParser_next_raw_packet(p, s) == Called(RawPcapPacket_from_slice(p.header.endianness, s), p)

(***************************************************************************)
(* ReadBuffer: the bytes read from the source and not consumed yet, the    *)
(* number of bytes consumed, and the chunks the source still delivers, one *)
(* at each read.                                                           *)
(***************************************************************************)
ReadBuffer(buffer, consumed, input) == [buffer |-> buffer, consumed |-> consumed, source |-> input]

ReadBuffer_new(input) == ReadBuffer(<<>>, 0, input)

\* ReadBuffer::has_data_left: the buffer is not empty or the source can still produce
has_data_left(rb) == rb.buffer # <<>> \/ rb.source # <<>>

\* What a call on a reader gives: the result, the parser and the ReadBuffer after it.
Read(res, p, rb) == [res |-> res, parser |-> p, reader |-> rb]

\* The closure a reader hands to the ReadBuffer, applied to the unconsumed bytes.
parse_closure(op, p, s) ==
    CASE op = "new" -> Called(PcapNgParser_new(s), p)
      [] op = "next_block" -> next_block(p, s)
      [] op = "next_raw_block" -> next_raw_block(p, s)
      [] op = "pcap_new" -> Called(PcapParser_new(s), p)
      [] op = "next_packet" -> PcapParser_next_packet(p, s)
      [] op = "next_raw_packet" -> PcapParser_next_raw_packet(p, s)

\* ReadBuffer::parse_with_context (and parse_with, op = "new"): on Ok the
\* consumed offset advances; on IncompleteBuffer more is read and the closure
\* is tried again, and at the end of the source the error is IncompleteBuffer
\* if nothing was consumed, else a truncation error; any other error is returned.
RECURSIVE parse_with_context(_, _, _)
parse_with_context(rb, p, op) ==
    Bind(parse_closure(op, p, rb.buffer),
         LAMBDA c :
             IF c.res.ok
             THEN Read(c.res, c.parser,
                       ReadBuffer(c.res.rem, rb.consumed + Len(rb.buffer) - Len(c.res.rem), rb.source))
             ELSE IF c.res # Err("IncompleteBuffer") THEN Read(c.res, c.parser, rb)
             ELSE IF rb.source = <<>>
                  THEN Read(IF rb.consumed = 0 THEN Err("IncompleteBuffer") ELSE Err("IoError"),
                            c.parser, rb)
                  ELSE parse_with_context(
                           ReadBuffer(rb.buffer \o Head(rb.source), rb.consumed, Tail(rb.source)),
                           c.parser, op))

(***************************************************************************)
(* PcapNgReader: a PcapNgParser and the ReadBuffer it reads from.          *)
(***************************************************************************)
\* PcapNgReader::new: ReadBuffer::new(reader), then parse_with(PcapNgParser::new)
PcapNgReader_new(input) == parse_with_context(ReadBuffer_new(input), None, "new")

\* next_block applied to all the bytes of the source, without the ReadBuffer.
PcapNgReader_next_block_direct(p, rb) ==
    IF has_data_left(rb)
    THEN Bind(next_block(p, rb.buffer \o Flatten(rb.source)),
              LAMBDA c : Read(c.res, c.parser,
                              ReadBuffer(IF c.res.ok THEN c.res.rem ELSE rb.buffer \o Flatten(rb.source),
                                         rb.consumed, <<>>)))
    ELSE Read(None, p, rb)
\* PcapNgReader::next_block: None when no data is left, else
\* Some(parse_with_context(parser, next_block)).
PcapNgReader_next_block(p, rb) ==
    IF has_data_left(rb) THEN parse_with_context(rb, p, "next_block") ELSE Read(None, p, rb)

\* PcapNgReader::next_raw_block: the same with PcapNgParser::next_raw_block.
PcapNgReader_next_raw_block(p, rb) ==
    IF has_data_left(rb) THEN parse_with_context(rb, p, "next_raw_block") ELSE Read(None, p, rb)

(***************************************************************************)
(* PcapReader: a PcapParser and the ReadBuffer it reads from.              *)
(***************************************************************************)
\* PcapReader::new: ReadBuffer::new(reader), then parse_with(PcapParser::new)
PcapReader_new(input) == parse_with_context(ReadBuffer_new(input), None, "pcap_new")

\* PcapReader::next_packet: None when no data is left, else Some(parse_with(next_packet)).
PcapReader_next_packet(p, rb) ==
    IF has_data_left(rb) THEN parse_with_context(rb, p, "next_packet") ELSE Read(None, p, rb)

\* PcapReader::next_raw_packet: the same with PcapParser::next_raw_packet.
PcapReader_next_raw_packet(p, rb) ==
    IF has_data_left(rb) THEN parse_with_context(rb, p, "next_raw_packet") ELSE Read(None, p, rb)

(***************************************************************************)
(* Inputs of the framing specification: a type word and a length word in   *)
(* one byte order, followed by up to MaxPayloadWords words, among them the *)
(* two byte-order magics and the length word in either byte order (the     *)
(* trailer of a well-formed block, or a body word of a longer one).        *)
(***************************************************************************)
FrameTypes == {SECTION_HEADER_BLOCK, INTERFACE_DESCRIPTION_BLOCK, <<0, 0, 0, 11>>}

FrameLens == {AsU32(8), AsU32(12), AsU32(14), AsU32(16), AsU32(20), <<1, 0, 0, 16>>}

PayloadWords(e, len) == {MagicBig, MagicLittle, WriteU32(e, len), WriteU32(OtherEndianness(e), len)}

Payloads(e, len) ==
    UNION {[1..n -> PayloadWords(e, len)] : n \in 0..MaxPayloadWords}

FramesOf(e, len) ==
    {WriteU32(e, t) \o WriteU32(e, len) \o Flatten(p) : t \in FrameTypes, p \in Payloads(e, len)}

Frames == UNION {FramesOf(e, len) : e \in Endiannesses, len \in FrameLens}

\* A frame, or a prefix of one: the caller may hold only part of a block.
RawInputs == {Take(f, Len(f) - c) : f \in Frames, c \in 0..MaxChop}

(***************************************************************************)
(* The framing specification.                                              *)
(***************************************************************************)
RawIdle == slice = <<>> /\ raw_out = None

CodecIdle == block = None /\ encoded = None /\ decoded = None

ParserIdle == file = <<>> /\ src = <<>> /\ parser = None /\ returned = <<>> /\ call = None

WriterIdle == writer = None /\ wrote = None

ReaderIdle ==
    source = <<>> /\ reader = None /\ whole = None /\ got = None /\ ref = None /\ pc = "idle"

InitRaw ==
    /\ slice \in RawInputs
    /\ raw_out = None
    /\ CodecIdle /\ ParserIdle /\ WriterIdle /\ ReaderIdle

FromSlice(B) ==
    /\ raw_out = None
    /\ raw_out' = [none |-> FALSE, B |-> B, res |-> RawBlock_from_slice(B, slice)]
    /\ UNCHANGED <<slice, codecVars, parserVars, writerVars, readerVars>>

NextRaw == \E B \in Endiannesses : FromSlice(B)

SpecRaw == InitRaw /\ [][NextRaw]_vars

(***************************************************************************)
(* C4.  Every RawBlock returned by RawBlock::from_slice has initial_len =  *)
(* trailer_len, initial_len a multiple of 4 and at least 12, a body of     *)
(* initial_len - 12 bytes, and the remainder returned with it is the input *)
(* without its first initial_len bytes.                                    *)
(***************************************************************************)
C4_RawBlockInvariant ==
    (~raw_out.none /\ raw_out.res.ok) =>
        LET b == raw_out.res.val
            n == AsUsize(b.initial_len)
        IN  /\ b.initial_len = b.trailer_len
            /\ U32Mod4(b.initial_len) = 0
            /\ n >= 12
            /\ Len(b.body) = n - 12
            /\ n <= Len(slice)
            /\ b.body = SubSeq(slice, 9, n - 4)
            /\ raw_out.res.rem = Drop(slice, n)

\* A block with a non-empty body is returned and bytes remain after it.
C4_Witness ==
    /\ ~raw_out.none
    /\ raw_out.res.ok
    /\ raw_out.res.val.body # <<>>
    /\ raw_out.res.rem # <<>>

(***************************************************************************)
(* C5 and C6 speak of the length field "as decoded": in the caller's byte  *)
(* order for every block type but Section Header, and in the byte order of *)
(* the byte-order magic for a Section Header.                              *)
(***************************************************************************)
IsSectionHeaderInput(s) == Len(s) >= 4 /\ Take(s, 4) = SECTION_HEADER_BLOCK

InputMagic(s) == SubSeq(s, 9, 12)

KnownMagic(s) == InputMagic(s) \in {MagicBig, MagicLittle}

MagicOrder(s) == IF InputMagic(s) = MagicBig THEN "Big" ELSE "Little"

\* The byte order the framing is decoded in, for an input of 12 bytes or more;
\* section 4.D of the specification reads the length of a Section Header
\* big-endian unless the magic says little-endian.
FramingOrder(B, s) ==
    IF IsSectionHeaderInput(s) THEN (IF InputMagic(s) = MagicLittle THEN "Little" ELSE "Big") ELSE B

DecodedLen(B, s) == ReadU32(FramingOrder(B, s), Drop(s, 4))

\* The classification of C5 as the claim words it, in its order.
ClaimedOutcome(B, s) ==
    IF Len(s) < 12 THEN "IncompleteBuffer"
    ELSE LET len == DecodedLen(B, s)
         IN  IF U32Mod4(len) # 0 \/ AsUsize(len) < 12 THEN "InvalidField"
             ELSE IF Len(s) - 8 < AsUsize(len) - 8 THEN "IncompleteBuffer"
             ELSE IF ReadU32(FramingOrder(B, s), Drop(s, AsUsize(len) - 4)) # len THEN "InvalidField"
             ELSE "Ok"

\* The same with the one case the claim leaves out: a Section Header whose
\* byte-order magic is unknown is InvalidField before its length is looked at.
AmendedOutcome(B, s) ==
    IF Len(s) >= 12 /\ IsSectionHeaderInput(s) /\ ~KnownMagic(s) THEN "InvalidField"
    ELSE ClaimedOutcome(B, s)

Outcome(r) == IF r.ok THEN "Ok" ELSE r.err

(***************************************************************************)
(* C5 (as stated).  RawBlock::from_slice fails in this order: fewer than   *)
(* 12 input bytes is IncompleteBuffer; else a length field that is not a   *)
(* multiple of 4 or is below 12 is InvalidField; else fewer than           *)
(* initial_len - 8 bytes after the type and length words is                *)
(* IncompleteBuffer; else a trailer that differs is InvalidField.          *)
(***************************************************************************)
C5_Original ==
    ~raw_out.none => Outcome(raw_out.res) = ClaimedOutcome(raw_out.B, slice)

(***************************************************************************)
(* C5 (amended).  The same order, with one more case after the 12-byte     *)
(* check: a Section Header whose byte-order magic is neither 0x1A2B3C4D    *)
(* nor 0x4D3C2B1A is InvalidField, also when the input is short.  And      *)
(* IncompleteBuffer is never returned when all initial_len bytes of the    *)
(* block are present.                                                      *)
(***************************************************************************)
C5_FailureOrder ==
    ~raw_out.none =>
        /\ Outcome(raw_out.res) = AmendedOutcome(raw_out.B, slice)
        /\ (Len(slice) >= 12 /\ AsUsize(DecodedLen(raw_out.B, slice)) <= Len(slice))
                => Outcome(raw_out.res) # "IncompleteBuffer"

\* A short input whose length field is invalid: InvalidField, not IncompleteBuffer.
C5_Witness ==
    /\ ~raw_out.none
    /\ Len(slice) >= 12
    /\ ~IsSectionHeaderInput(slice)
    /\ U32Mod4(DecodedLen(raw_out.B, slice)) # 0
    /\ Len(slice) < AsUsize(DecodedLen(raw_out.B, slice))
    /\ Outcome(raw_out.res) = "InvalidField"

(***************************************************************************)
(* C6.  For an input of at least 12 bytes whose type is Section Header,    *)
(* RawBlock::from_slice gives the same result for both caller byte orders: *)
(* the length and the trailer are decoded in the byte order of the magic,  *)
(* and any other magic is InvalidField.                                    *)
(***************************************************************************)
C6_SectionHeaderCallerIndependent ==
    (~raw_out.none /\ Len(slice) >= 12 /\ IsSectionHeaderInput(slice)) =>
        /\ raw_out.res = RawBlock_from_slice(OtherEndianness(raw_out.B), slice)
        /\ ~KnownMagic(slice) => raw_out.res = Err("InvalidField")
        /\ raw_out.res.ok =>
                LET b == raw_out.res.val
                IN  /\ b.initial_len = ReadU32(MagicOrder(slice), Drop(slice, 4))
                    /\ b.trailer_len = ReadU32(MagicOrder(slice), Drop(slice, AsUsize(b.initial_len) - 4))

\* A little-endian Section Header is framed for a caller that asked for big-endian.
C6_Witness ==
    /\ ~raw_out.none
    /\ raw_out.B = "Big"
    /\ IsSectionHeaderInput(slice)
    /\ raw_out.res.ok
    /\ InputMagic(slice) = MagicLittle

(***************************************************************************)
(* The block corpus: Block values of every kind, with an option of each    *)
(* known code, custom and unknown options, and data, strings and opaque    *)
(* values of every length up to MaxDataLen, so of every class mod 4.       *)
(***************************************************************************)
\* n bytes of printable ASCII
Bytes(n) == [i \in 1..n |-> 96 + i]

DataLens == 0..MaxDataLen

RowValues(row) ==
    CASE row.ty = "utf8" -> {Opt(row.name, Bytes(n)) : n \in DataLens}
      [] row.ty = "bytes" ->
            IF row.fixed THEN {Opt(row.name, Bytes(row.len))}
            ELSE {Opt(row.name, Bytes(n)) : n \in DataLens}
      [] row.ty = "nonempty" -> {Opt(row.name, Bytes(n)) : n \in 1..MaxDataLen}
      [] row.ty = "u8" -> {Opt(row.name, 6)}
      [] row.ty = "u32" -> {Opt(row.name, <<1, 2, 3, 4>>)}
      [] row.ty = "u64" -> {Opt(row.name, <<1, 2, 3, 4, 5, 6, 7, 8>>)}

CustomValues ==
    {[name |-> "CustomBinary", code |-> 2989, pen |-> <<0, 0, 0, 9>>, value |-> Bytes(n)] : n \in DataLens}
        \cup {[name |-> "CustomUtf8", code |-> 2988, pen |-> <<0, 0, 0, 9>>, value |-> Bytes(n)] : n \in DataLens}
        \cup {UnknownOption(99, n, Bytes(n)) : n \in DataLens}

OptionValues(K) == UNION {RowValues(row) : row \in OptionTable(K)} \cup CustomValues

\* No option, one option, or a comment followed by one option.
OptionLists(K) ==
    {<<>>} \cup {<<o>> : o \in OptionValues(K)}
           \cup {<<Opt("Comment", Bytes(1)), o>> : o \in OptionValues(K)}

NameLists == {<<Bytes(n)>> : n \in 1..MaxDataLen} \cup {<<Bytes(1), Bytes(2)>>}

RecordValues ==
    {[rec |-> "Ipv4", ip_addr |-> Bytes(4), names |-> names] : names \in NameLists}
        \cup {[rec |-> "Ipv6", ip_addr |-> Bytes(16), names |-> names] : names \in NameLists}
        \cup {[rec |-> "Unknown", type_ |-> 7, length |-> n, value |-> Bytes(n)] : n \in DataLens}

RecordLists ==
    {<<>>} \cup {<<r>> : r \in RecordValues}
           \cup {<<[rec |-> "Ipv4", ip_addr |-> Bytes(4), names |-> <<Bytes(3)>>], r>> : r \in RecordValues}

MinusOne == <<255, 255, 255, 255, 255, 255, 255, 255>>

SectionHeaderBlocks ==
    {[kind |-> "SectionHeader", endianness |-> e, major_version |-> 1, minor_version |-> 0,
      section_length |-> MinusOne, options |-> o] :
        e \in Endiannesses, o \in OptionLists("SectionHeader")}

InterfaceDescriptionBlocks ==
    {[kind |-> "InterfaceDescription", linktype |-> 1, snaplen |-> <<0, 0, 255, 255>>, options |-> o] :
        o \in OptionLists("InterfaceDescription")}

EnhancedPacketBlocks ==
    {[kind |-> "EnhancedPacket", interface_id |-> AsU32(0), timestamp |-> Duration(<<0, 0, 0, 0, 0, 0, 0, 4>>, 294967298),
      original_len |-> AsU32(n), data |-> Bytes(n), options |-> o] :
        n \in DataLens, o \in OptionLists("EnhancedPacket")}

PacketBlocks ==
    {[kind |-> "Packet", interface_id |-> 0, drop_count |-> 3, timestamp |-> <<0, 0, 0, 1, 0, 0, 0, 2>>,
      original_len |-> AsU32(n), data |-> Bytes(n), options |-> o] :
        n \in DataLens, o \in OptionLists("Packet")}

SimplePacketBlocks ==
    {[kind |-> "SimplePacket", original_len |-> AsU32(n), data |-> Bytes(n)] : n \in DataLens}

NameResolutionBlocks ==
    {[kind |-> "NameResolution", records |-> r, options |-> o] :
        r \in RecordLists, o \in OptionLists("NameResolution")}

InterfaceStatisticsBlocks ==
    {[kind |-> "InterfaceStatistics", interface_id |-> AsU32(0), timestamp |-> <<0, 0, 0, 1, 0, 0, 0, 2>>,
      options |-> o] : o \in OptionLists("InterfaceStatistics")}

SystemdJournalExportBlocks ==
    {[kind |-> "SystemdJournalExport", journal_entry |-> Bytes(n)] : n \in DataLens}

\* An Unknown block as the parser would build it: its length field is the
\* total length of the block that holds its value.
UnknownBlocks ==
    {UnknownBlock_new(<<0, 0, 0, 11>>, AsU32(12 + n + PadLen(n)), Bytes(n)) : n \in DataLens}

BlockCorpus ==
    SectionHeaderBlocks \cup InterfaceDescriptionBlocks \cup EnhancedPacketBlocks
        \cup PacketBlocks \cup SimplePacketBlocks \cup NameResolutionBlocks
        \cup InterfaceStatisticsBlocks \cup SystemdJournalExportBlocks \cup UnknownBlocks

(***************************************************************************)
(* Specification SpecCodec: a Block is encoded by Block::write_to in a     *)
(* byte order and the bytes written are decoded by Block::from_slice in    *)
(* the same byte order.                                                    *)
(***************************************************************************)
InitCodec ==
    /\ block \in {[b |-> b, B |-> B] : b \in BlockCorpus, B \in Endiannesses}
    /\ encoded = None
    /\ decoded = None
    /\ RawIdle /\ ParserIdle /\ WriterIdle /\ ReaderIdle

Encode ==
    /\ encoded = None
    /\ encoded' = Block_write_to(block.B, block.b)
    /\ UNCHANGED <<block, decoded, rawVars, parserVars, writerVars, readerVars>>

Decode ==
    /\ encoded # None
    /\ decoded = None
    /\ decoded' = Block_from_slice(block.B, encoded.bytes)
    /\ UNCHANGED <<block, encoded, rawVars, parserVars, writerVars, readerVars>>

NextCodec == Encode \/ Decode

SpecCodec == InitCodec /\ [][NextCodec]_vars

C8_Kinds ==
    {"SectionHeader", "InterfaceDescription", "EnhancedPacket", "SimplePacket",
     "NameResolution", "InterfaceStatistics", "SystemdJournalExport", "Unknown"}

C8_RoundTrip ==
    (decoded # None /\ block.b.kind \in C8_Kinds) =>
        (decoded.ok /\ decoded.val = block.b /\ decoded.rem = <<>>)

(***************************************************************************)
(* Captures handed to the parser: a Section Header and up to MaxBlocks     *)
(* blocks, each written in the byte order of the section it is in, or,     *)
(* when flipped, in the other one.                                         *)
(***************************************************************************)
Item(b, flip) == [b |-> b, flip |-> flip]

PlainSection(e) ==
    [kind |-> "SectionHeader", endianness |-> e, major_version |-> 1, minor_version |-> 0,
     section_length |-> MinusOne, options |-> <<>>]

Interface(options) ==
    [kind |-> "InterfaceDescription", linktype |-> 1, snaplen |-> <<0, 0, 255, 255>>, options |-> options]

Packet(interface_id, data) ==
    [kind |-> "EnhancedPacket", interface_id |-> AsU32(interface_id), timestamp |-> Duration(<<0, 0, 0, 0, 0, 0, 0, 4>>, 294967298),
     original_len |-> AsU32(Len(data)), data |-> data, options |-> <<>>]

\* An Enhanced Packet frame whose body is too short to decode.
ShortPacket == UnknownBlock_new(ENHANCED_PACKET_BLOCK, AsU32(16), Bytes(4))

ParserPool ==
    {Item(PlainSection("Big"), FALSE), Item(PlainSection("Little"), FALSE),
     Item(Interface(<<>>), FALSE), Item(Interface(<<Opt("IfName", Bytes(2))>>), FALSE),
     Item(Interface(<<>>), TRUE),
     Item(Packet(0, Bytes(2)), FALSE), Item(ShortPacket, FALSE)}

RECURSIVE SeqsUpTo(_, _)
SeqsUpTo(S, n) ==
    IF n = 0 THEN {<<>>}
    ELSE LET P == SeqsUpTo(S, n - 1) IN P \cup {Append(q, x) : q \in P, x \in S}

RECURSIVE EncodeItems(_, _)
EncodeItems(items, e) ==
    IF items = <<>> THEN <<>>
    ELSE LET it == Head(items)
             e1 == IF it.b.kind = "SectionHeader" THEN it.b.endianness ELSE e
             B == IF it.flip THEN OtherEndianness(e1) ELSE e1
         IN  Block_write_to(B, it.b).bytes \o EncodeItems(Tail(items), e1)

ParserFiles ==
    {EncodeItems(<<Item(PlainSection(e), FALSE)>> \o items, e) :
        e \in Endiannesses, items \in SeqsUpTo(ParserPool, MaxBlocks)}

(***************************************************************************)
(* Specification SpecParser: PcapNgParser::new on a capture, and then      *)
(* next_block and next_raw_block on what the calls before left unread.     *)
(* `returned` keeps, for each successful call, the bytes it consumed and   *)
(* the byte order the parser framed them in.                               *)
(***************************************************************************)
Chunk(s, rem, B) == [bytes |-> Take(s, Len(s) - Len(rem)), order |-> B]

Call(op, arg, res) == [op |-> op, arg |-> arg, res |-> res]

InitParser ==
    /\ file \in ParserFiles
    /\ src = file
    /\ parser = None
    /\ returned = <<>>
    /\ call = None
    /\ RawIdle /\ CodecIdle /\ WriterIdle /\ ReaderIdle

New ==
    /\ parser = None
    /\ call = None
    /\ LET r == PcapNgParser_new(src)
       IN  /\ call' = Call("new", src, r)
           /\ IF r.ok
              THEN /\ parser' = r.val
                   /\ src' = r.rem
                   /\ returned' = <<Chunk(src, r.rem, "Big")>>
              ELSE UNCHANGED <<parser, src, returned>>
    /\ UNCHANGED <<file, rawVars, codecVars, writerVars, readerVars>>

Advance(op, c) ==
    /\ call' = Call(op, src, c.res)
    /\ parser' = c.parser
    /\ IF c.res.ok
       THEN /\ src' = c.res.rem
            /\ returned' = Append(returned, Chunk(src, c.res.rem, parser.section.endianness))
       ELSE UNCHANGED <<src, returned>>
    /\ UNCHANGED <<file, rawVars, codecVars, writerVars, readerVars>>

NextBlock == parser # None /\ Advance("next_block", next_block(parser, src))

NextRawBlock == parser # None /\ Advance("next_raw_block", next_raw_block(parser, src))

NextParser == New \/ NextBlock \/ NextRawBlock

SpecParser == InitParser /\ [][NextParser]_vars

\* A chunk is a Section Header / an Interface Description by its type word.
IsSectionHeaderChunk(c) == Take(c.bytes, 4) = SECTION_HEADER_BLOCK

IsInterfaceChunk(c) == ReadU32(c.order, c.bytes) = INTERFACE_DESCRIPTION_BLOCK

\* The Interface Description blocks among the chunks since the last Section Header.
RECURSIVE SectionInterfaces(_)
SectionInterfaces(chunks) ==
    IF chunks = <<>> THEN <<>>
    ELSE LET c == chunks[Len(chunks)]
             front == SubSeq(chunks, 1, Len(chunks) - 1)
         IN  IF IsSectionHeaderChunk(c) THEN <<>>
             ELSE IF IsInterfaceChunk(c)
                  THEN Append(SectionInterfaces(front), Block_from_slice(c.order, c.bytes).val)
                  ELSE SectionInterfaces(front)

(***************************************************************************)
(* C1.  After PcapNgParser::new and any calls of next_block and            *)
(* next_raw_block, interfaces() is the list of the Interface Description   *)
(* blocks parsed since the most recent Section Header, in parse order:     *)
(* empty after construction and after a Section Header, one longer after   *)
(* an Interface Description.                                               *)
(***************************************************************************)
C1_InterfacesOfSection ==
    parser # None =>
        /\ parser.interfaces = SectionInterfaces(returned)
        /\ (call.res.ok /\ IsSectionHeaderChunk(returned[Len(returned)])) => parser.interfaces = <<>>
        /\ (call.res.ok /\ call.op = "next_block" /\ call.res.val.kind = "InterfaceDescription") =>
                /\ parser.interfaces # <<>>
                /\ parser.interfaces[Len(parser.interfaces)] = call.res.val

\* A second section was opened after an interface, and has one interface of its own.
C1_Witness ==
    /\ parser # None
    /\ Len(returned) = 4
    /\ IsSectionHeaderChunk(returned[3])
    /\ IsInterfaceChunk(returned[2])
    /\ IsInterfaceChunk(returned[4])
    /\ parser.interfaces = <<Interface(<<Opt("IfName", Bytes(2))>>)>>

\* The byte order that the magic of the last Section Header among the chunks names.
RECURSIVE SectionOrder(_)
SectionOrder(chunks) ==
    LET c == chunks[Len(chunks)]
    IN  IF IsSectionHeaderChunk(c) THEN MagicOrder(c.bytes)
        ELSE SectionOrder(SubSeq(chunks, 1, Len(chunks) - 1))

\* The type, length and trailer words of a chunk, read in byte order e,
\* are those of a block that is the whole chunk.
FramedIn(e, bytes) ==
    /\ Len(bytes) >= 12
    /\ AsUsize(ReadU32(e, Drop(bytes, 4))) = Len(bytes)
    /\ ReadU32(e, Drop(bytes, Len(bytes) - 4)) = ReadU32(e, Drop(bytes, 4))

\* The fields of a returned block are the bytes of the chunk read in byte order e.
FieldsIn(e, bytes, res) ==
    IF "kind" \notin DOMAIN res
    THEN /\ res.type_ = ReadU32(e, bytes)
         /\ res.initial_len = ReadU32(e, Drop(bytes, 4))
         /\ res.trailer_len = ReadU32(e, Drop(bytes, Len(bytes) - 4))
    ELSE CASE res.kind = "InterfaceDescription" ->
                 /\ ReadU32(e, bytes) = INTERFACE_DESCRIPTION_BLOCK
                 /\ res.linktype = ReadU16(e, Drop(bytes, 8))
                 /\ res.snaplen = ReadU32(e, Drop(bytes, 12))
           [] res.kind = "EnhancedPacket" ->
                 /\ ReadU32(e, bytes) = ENHANCED_PACKET_BLOCK
                 /\ res.interface_id = ReadU32(e, Drop(bytes, 8))
                 /\ AsU32(Len(res.data)) = ReadU32(e, Drop(bytes, 20))
                 /\ res.original_len = ReadU32(e, Drop(bytes, 24))
           [] res.kind = "SectionHeader" ->
                 /\ res.endianness = e
                 /\ res.major_version = ReadU16(e, Drop(bytes, 12))
           [] OTHER -> res.type_ = ReadU32(e, bytes)

(***************************************************************************)
(* C3.  The parser decodes every block in the byte order of the current    *)
(* section: section().endianness is the byte order that the magic of the   *)
(* most recent Section Header parsed names, and the type, length, trailer  *)
(* and body fields of each block parsed after it are read in that order.   *)
(***************************************************************************)
C3_SectionEndianness ==
    parser # None =>
        /\ parser.section.endianness = SectionOrder(returned)
        /\ \A i \in 1..Len(returned) :
              LET e == SectionOrder(SubSeq(returned, 1, i))
              IN  /\ FramedIn(e, returned[i].bytes)
                  /\ i > 1 => returned[i].order = SectionOrder(SubSeq(returned, 1, i - 1))
        /\ (call.res.ok /\ call.op # "new") =>
              FieldsIn(SectionOrder(returned), returned[Len(returned)].bytes, call.res.val)

\* A little-endian section was opened inside a big-endian capture and an
\* interface of it was returned by next_block.
C3_Witness ==
    /\ parser # None
    /\ Len(returned) = 3
    /\ returned[1].bytes[9] = 26
    /\ IsSectionHeaderChunk(returned[2])
    /\ parser.section.endianness = "Little"
    /\ call.op = "next_block"
    /\ call.res.ok
    /\ call.res.val = Interface(<<Opt("IfName", Bytes(2))>>)

(***************************************************************************)
(* Specification SpecWriter: a PcapNgWriter made by with_section_header,   *)
(* and then up to MaxWrites calls of write_block and write_raw_block.      *)
(***************************************************************************)
Statistics(interface_id) ==
    [kind |-> "InterfaceStatistics", interface_id |-> AsU32(interface_id),
     timestamp |-> <<0, 0, 0, 1, 0, 0, 0, 2>>, options |-> <<>>]

WriterBlocks ==
    {PlainSection("Big"), PlainSection("Little"), Interface(<<>>),
     Packet(0, Bytes(2)), Packet(1, Bytes(1)), Packet(5, Bytes(2)),
     Statistics(0), Statistics(1),
     [kind |-> "SimplePacket", original_len |-> AsU32(4), data |-> Bytes(4)]}

\* The raw form of a block, as RawBlock::from_slice frames its encoding.
RawOf(B, b) == RawBlock_from_slice(B, Block_write_to(B, b).bytes).val

WriterRawBlocks == {RawOf("Little", PlainSection("Little")), RawOf("Big", Packet(0, Bytes(2)))}

Op(op, arg, res, count) == [op |-> op, block |-> arg, res |-> res, count |-> count]

InitWriter ==
    /\ \E e \in Endiannesses :
          /\ writer = with_section_header(PlainSection(e))
          /\ wrote = Op("with_section_header", PlainSection(e), Some(0), 0)
    /\ RawIdle /\ CodecIdle /\ ParserIdle /\ ReaderIdle

WriteBlock(b) ==
    /\ wrote.count < MaxWrites
    /\ LET w == write_block(writer, b)
       IN  /\ writer' = w.writer
           /\ wrote' = Op("write_block", b, w.res, wrote.count + 1)
    /\ UNCHANGED <<rawVars, codecVars, parserVars, readerVars>>

WriteRawBlock(raw_block) ==
    /\ wrote.count < MaxWrites
    /\ LET w == write_raw_block(writer, raw_block)
       IN  /\ writer' = w.writer
           /\ wrote' = Op("write_raw_block", raw_block, w.res, wrote.count + 1)
    /\ UNCHANGED <<rawVars, codecVars, parserVars, readerVars>>

NextWriter ==
    \/ \E b \in WriterBlocks : WriteBlock(b)
    \/ \E raw_block \in WriterRawBlocks : WriteRawBlock(raw_block)

SpecWriter == InitWriter /\ [][NextWriter]_vars

(***************************************************************************)
(* C2.  write_block of an Enhanced Packet or Interface Statistics block    *)
(* whose interface_id is at least the length of the writer's interface     *)
(* list returns InvalidInterfaceId(interface_id), writes no byte and       *)
(* leaves the section and the interfaces as they were; with a smaller      *)
(* interface_id the block is written: the sink grows by the bytes of that  *)
(* block, whose number is returned.                                        *)
(***************************************************************************)
C2_Step ==
    (wrote'.op = "write_block" /\ wrote'.count = wrote.count + 1
        /\ wrote'.block.kind \in {"EnhancedPacket", "InterfaceStatistics"}) =>
        LET b == wrote'.block
            e == writer.section.endianness
            new == Drop(writer'.sink, Len(writer.sink))
        IN  IF AsUsize(b.interface_id) >= Len(writer.interfaces)
            THEN /\ wrote'.res = InvalidInterfaceId(b.interface_id)
                 /\ writer' = writer
            ELSE /\ wrote'.res.ok
                 /\ Take(writer'.sink, Len(writer.sink)) = writer.sink
                 /\ Len(new) = wrote'.res.val
                 /\ ReadU32(e, new) = BlockCode(b)
                 /\ AsUsize(ReadU32(e, Drop(new, 4))) = Len(new)
                 /\ ReadU32(e, Drop(new, 8)) = b.interface_id
                 /\ writer'.section = writer.section
                 /\ writer'.interfaces = writer.interfaces

C2_InvalidInterfaceId == [][C2_Step]_vars

\* An Enhanced Packet for interface 5 was refused by a writer with one interface.
C2_Witness ==
    /\ wrote.op = "write_block"
    /\ wrote.block = Packet(5, Bytes(2))
    /\ Len(writer.interfaces) = 1
    /\ wrote.res = InvalidInterfaceId(AsU32(5))
    /\ wrote.count = 2

(***************************************************************************)
(* Specification SpecFile: a valid capture is copied block by block, by    *)
(* PcapNgReader::next_block and write_block on a PcapNgWriter made by      *)
(* with_section_header from the reader's first section.  The captures are  *)
(* those that writing valid blocks produces: a Section Header and up to    *)
(* MaxBlocks blocks, each packet after the interface it names.             *)
(***************************************************************************)
FilePool ==
    {Item(PlainSection("Big"), FALSE), Item(PlainSection("Little"), FALSE),
     Item(Interface(<<>>), FALSE), Item(Interface(<<Opt("IfName", Bytes(2))>>), FALSE),
     Item(Interface(<<Opt("IfTzone", <<0, 0, 0, 1>>)>>), FALSE),
     Item(Packet(0, Bytes(2)), FALSE),
     Item([kind |-> "SimplePacket", original_len |-> AsU32(4), data |-> Bytes(4)], FALSE)}

\* The number of interfaces of the section that is open after the items.
RECURSIVE InterfaceCount(_)
InterfaceCount(items) ==
    IF items = <<>> THEN 0
    ELSE LET b == items[Len(items)].b
             front == SubSeq(items, 1, Len(items) - 1)
         IN  IF b.kind = "SectionHeader" THEN 0
             ELSE IF b.kind = "InterfaceDescription" THEN InterfaceCount(front) + 1
             ELSE InterfaceCount(front)

ValidItems(items) ==
    \A i \in 1..Len(items) :
        items[i].b.kind = "EnhancedPacket" =>
            AsUsize(items[i].b.interface_id) < InterfaceCount(SubSeq(items, 1, i - 1))

ValidFiles ==
    {EncodeItems(<<Item(PlainSection(e), FALSE)>> \o items, e) :
        e \in Endiannesses, items \in {q \in SeqsUpTo(FilePool, MaxBlocks) : ValidItems(q)}}

InitFile ==
    /\ file \in ValidFiles
    /\ src = file
    /\ parser = None
    /\ returned = <<>>
    /\ call = None
    /\ writer = None
    /\ wrote = None
    /\ RawIdle /\ CodecIdle /\ ReaderIdle

\* PcapNgReader::new(file) and PcapNgWriter::with_section_header(Vec::new(), reader.section())
Open ==
    /\ call = None
    /\ LET r == PcapNgReader_new(<<src>>)
       IN  /\ call' = Call("new", src, r.res)
           /\ IF r.res.ok
              THEN /\ parser' = r.res.val
                   /\ src' = r.reader.buffer
                   /\ writer' = with_section_header(r.res.val.section)
                   /\ wrote' = Op("with_section_header", r.res.val.section, Some(0), 0)
              ELSE UNCHANGED <<parser, src, writer, wrote>>
    /\ UNCHANGED <<file, returned, rawVars, codecVars, readerVars>>

\* The reader's ReadBuffer once the file has been read in one piece: src is
\* what it has not consumed.
FileBuffer == ReadBuffer(src, Len(file) - Len(src), <<>>)

\* One turn of `while let Some(block) = reader.next_block() { writer.write_block(&block.unwrap()).unwrap() }`
Copy ==
    /\ parser # None
    /\ call.res.ok /\ wrote.res.ok
    /\ has_data_left(FileBuffer)
    /\ LET c == PcapNgReader_next_block(parser, FileBuffer)
       IN  /\ call' = Call("next_block", src, c.res)
           /\ parser' = c.parser
           /\ IF c.res.ok
              THEN LET w == write_block(writer, c.res.val)
                   IN  /\ src' = c.reader.buffer
                       /\ writer' = w.writer
                       /\ wrote' = Op("write_block", c.res.val, w.res, wrote.count + 1)
              ELSE UNCHANGED <<src, writer, wrote>>
    /\ UNCHANGED <<file, returned, rawVars, codecVars, readerVars>>

NextFile == Open \/ Copy

SpecFile == InitFile /\ [][NextFile]_vars

(***************************************************************************)
(* C9.  Copying a valid capture gives its bytes back: no read and no write *)
(* fails, what has been written is what has been read, and at the end of   *)
(* the input the output is the input.                                      *)
(***************************************************************************)
C9_FileRoundTrip ==
    call # None =>
        /\ call.res.ok
        /\ wrote.res.ok
        /\ writer.sink \o src = file

(***************************************************************************)
(* Specification SpecFuzz: the fuzz target of the parser.  The input is a  *)
(* block of a given type whose body is made of up to MaxFuzzWords words,   *)
(* with a length field that counts an odd tail or not, alone or after a    *)
(* Section Header; next_block is called on every suffix of what new left.  *)
(***************************************************************************)
FuzzPairs == {<<0, 0>>, <<1, 5>>, <<7, 1>>, <<1, 0>>, <<6699, 15437>>}

FuzzWord(e, pair) == WriteU16(e, pair[1]) \o WriteU16(e, pair[2])

FuzzBodies(e) == {Flatten([i \in 1..Len(q) |-> FuzzWord(e, q[i])]) : q \in SeqsUpTo(FuzzPairs, MaxFuzzWords)}

FuzzTypes ==
    {SECTION_HEADER_BLOCK, INTERFACE_DESCRIPTION_BLOCK, NAME_RESOLUTION_BLOCK,
     INTERFACE_STATISTIC_BLOCK, ENHANCED_PACKET_BLOCK, PACKET_BLOCK}

FuzzFrame(e, type_, body) ==
    WriteU32(e, type_) \o WriteU32(e, AsU32(12 + Len(body))) \o body \o WriteU32(e, AsU32(12 + Len(body)))

FuzzInputsOf(e) ==
    {head \o FuzzFrame(e, type_, body \o tail) :
        head \in {<<>>, Block_write_to(e, PlainSection(e)).bytes},
        type_ \in FuzzTypes, body \in FuzzBodies(e), tail \in {<<>>, <<1>>}}

FuzzInputs == UNION {FuzzInputsOf(e) : e \in Endiannesses}

InitFuzz ==
    /\ file \in FuzzInputs
    /\ src = file
    /\ parser = None
    /\ returned = <<>>
    /\ call = None
    /\ RawIdle /\ CodecIdle /\ WriterIdle /\ ReaderIdle

\* `if let Ok((rem, mut pcapng_parser)) = PcapNgParser::new(data)`
FuzzNew ==
    /\ call = None
    /\ LET r == PcapNgParser_new(src)
       IN  /\ call' = Call("new", src, r)
           /\ IF r.ok THEN parser' = r.val /\ src' = r.rem ELSE UNCHANGED <<parser, src>>
    /\ UNCHANGED <<file, returned, rawVars, codecVars, writerVars, readerVars>>

\* One turn of `while !src.is_empty() { let _ = next_block(src); src = &src[1..]; }`
FuzzStep ==
    /\ parser # None
    /\ src # <<>>
    /\ LET c == next_block(parser, src)
       IN  /\ call' = Call("next_block", src, c.res)
           /\ parser' = c.parser
    /\ src' = Tail(src)
    /\ UNCHANGED <<file, returned, rawVars, codecVars, writerVars, readerVars>>

NextFuzz == FuzzNew \/ FuzzStep

SpecFuzz == InitFuzz /\ [][NextFuzz]_vars

TypedErrors == {"IncompleteBuffer", "InvalidField", "Utf8Error"}

(***************************************************************************)
(* C10.  PcapNgParser::new and next_block on any suffix of the input never *)
(* panic: each call returns Ok or a typed error.  A Name Resolution record *)
(* whose declared length runs past the end of the block body is an error.  *)
(***************************************************************************)
C10_NoPanic ==
    call # None => (call.res.ok \/ call.res.err \in TypedErrors)

\* next_block met a Name Resolution block whose only record declares 5 bytes
\* (8 with padding) and is followed by 4, and returned InvalidField.
C10_Witness ==
    /\ call # None
    /\ call.op = "next_block"
    /\ Len(call.arg) = 20
    /\ \E e \in Endiannesses :
          /\ parser.section.endianness = e
          /\ Take(call.arg, 16) = WriteU32(e, NAME_RESOLUTION_BLOCK) \o WriteU32(e, AsU32(20))
                                     \o FuzzWord(e, <<1, 5>>) \o FuzzWord(e, <<0, 0>>)
    /\ call.res = Err("InvalidField")

(***************************************************************************)
(* Captures handed to a reader: a Section Header and up to MaxRead blocks, *)
(* well formed or not, with up to MaxCut bytes missing at the end, and     *)
(* delivered by the source in chunks of a given size.                      *)
(***************************************************************************)
\* A Name Resolution frame with an empty body: no record, not even the end record.
EmptyNameResolution == UnknownBlock_new(NAME_RESOLUTION_BLOCK, AsU32(12), <<>>)

ReaderPool ==
    {Item(PlainSection("Big"), FALSE), Item(PlainSection("Little"), FALSE),
     Item(Interface(<<>>), FALSE), Item(Packet(0, Bytes(2)), FALSE),
     Item(ShortPacket, FALSE), Item(EmptyNameResolution, FALSE)}

ReaderFiles ==
    {EncodeItems(<<Item(PlainSection(e), FALSE)>> \o items, e) :
        e \in Endiannesses, items \in SeqsUpTo(ReaderPool, MaxRead)}

ChunkSizes == {3, 7, 64}

RECURSIVE Split(_, _)
Split(f, n) ==
    IF f = <<>> THEN <<>>
    ELSE IF Len(f) <= n THEN <<f>>
    ELSE <<Take(f, n)>> \o Split(Drop(f, n), n)

\* PCAP captures: a global header and up to MaxRead records, one of them
\* longer than the smaller of the two snaplens.
PcapRecord(e, data) ==
    WriteU32(e, AsU32(1)) \o WriteU32(e, AsU32(2)) \o WriteU32(e, AsU32(Len(data)))
        \o WriteU32(e, AsU32(Len(data))) \o data

PcapHeaders ==
    {PcapHeader(2, 4, AsU32(0), AsU32(0), snaplen, DataLink_from(AsU32(1)), r, e) :
        snaplen \in {AsU32(2), AsU32(65535)}, r \in {"MicroSecond", "NanoSecond"}, e \in Endiannesses}

PcapFiles ==
    {PcapHeader_write_to(h).bytes \o Flatten([i \in 1..Len(q) |-> PcapRecord(h.endianness, q[i])]) :
        h \in PcapHeaders, q \in SeqsUpTo({Bytes(2), Bytes(3)}, MaxRead)}

ReaderSources ==
    {Split(Take(f, Len(f) - cut), n) :
        f \in ReaderFiles \cup PcapFiles, cut \in 0..MaxCut, n \in ChunkSizes}

\* The same bytes in one chunk.
Whole(chunks) == IF chunks = <<>> THEN <<>> ELSE <<Flatten(chunks)>>

(***************************************************************************)
(* Specification SpecReader: the fuzz targets of the readers,              *)
(*   if let Ok(mut r) = PcapNgReader::new(data).await {                    *)
(*       while let Some(_block) = r.next_block().await {} }                *)
(* and the same with PcapReader and next_packet, with next_raw_block and   *)
(* next_raw_packet called as well, on a source that delivers the capture   *)
(* in chunks and, in step with it, on one that delivers it whole.          *)
(***************************************************************************)
PcapNgReader(p, rb) == [parser |-> p, reader |-> rb]

PcapReader(p, rb) == [parser |-> p, reader |-> rb]

IsPcapNg(r) == "section" \in DOMAIN r.parser

InitReader ==
    /\ source \in ReaderSources
    /\ reader = None
    /\ whole = None
    /\ got = None
    /\ ref = None
    /\ pc = "new"
    /\ RawIdle /\ CodecIdle /\ ParserIdle /\ WriterIdle

Made(op, r) ==
    IF ~r.res.ok THEN None
    ELSE IF op = "new" THEN PcapNgReader(r.res.val, r.reader)
    ELSE PcapReader(r.res.val, r.reader)

ReaderMade(op, r, w) ==
    /\ got' = Call(op, ReadBuffer_new(source), r.res)
    /\ ref' = Call(op, ReadBuffer_new(Whole(source)), w.res)
    /\ reader' = Made(op, r)
    /\ whole' = Made(op, w)
    /\ pc' = IF r.res.ok /\ w.res.ok THEN "call" ELSE "done"
    /\ UNCHANGED <<source, rawVars, codecVars, parserVars, writerVars>>

ReaderNew ==
    /\ pc = "new"
    /\ ReaderMade("new", PcapNgReader_new(source), PcapNgReader_new(Whole(source)))

PcapReaderNew ==
    /\ pc = "new"
    /\ ReaderMade("pcap_new", PcapReader_new(source), PcapReader_new(Whole(source)))

ReaderCall(op, c, w) ==
    /\ got' = Call(op, reader, c.res)
    /\ ref' = Call(op, whole, w.res)
    /\ reader' = [reader EXCEPT !.parser = c.parser, !.reader = c.reader]
    /\ whole' = [whole EXCEPT !.parser = w.parser, !.reader = w.reader]
    /\ pc' = "test"
    /\ UNCHANGED <<source, rawVars, codecVars, parserVars, writerVars>>

ReaderNextBlock ==
    /\ pc = "call" /\ IsPcapNg(reader)
    /\ ReaderCall("next_block", PcapNgReader_next_block(reader.parser, reader.reader),
                  PcapNgReader_next_block(whole.parser, whole.reader))

ReaderNextRawBlock ==
    /\ pc = "call" /\ IsPcapNg(reader)
    /\ ReaderCall("next_raw_block", PcapNgReader_next_raw_block(reader.parser, reader.reader),
                  PcapNgReader_next_raw_block(whole.parser, whole.reader))

PcapReaderNextPacket ==
    /\ pc = "call" /\ ~IsPcapNg(reader)
    /\ ReaderCall("next_packet", PcapReader_next_packet(reader.parser, reader.reader),
                  PcapReader_next_packet(whole.parser, whole.reader))

PcapReaderNextRawPacket ==
    /\ pc = "call" /\ ~IsPcapNg(reader)
    /\ ReaderCall("next_raw_packet", PcapReader_next_raw_packet(reader.parser, reader.reader),
                  PcapReader_next_raw_packet(whole.parser, whole.reader))

\* The test of the loop: `while let Some(_block) = ...`
ReaderTest ==
    /\ pc = "test"
    /\ pc' = IF got.res = None THEN "done" ELSE "call"
    /\ UNCHANGED <<source, reader, whole, got, ref, rawVars, codecVars, parserVars, writerVars>>

NextReader ==
    \/ ReaderNew \/ ReaderNextBlock \/ ReaderNextRawBlock
    \/ PcapReaderNew \/ PcapReaderNextPacket \/ PcapReaderNextRawPacket
    \/ ReaderTest

SpecReader == InitReader /\ [][NextReader]_vars

\* The bytes of the source that the reader has not consumed.
Unconsumed(rb) == rb.buffer \o Flatten(rb.source)

(***************************************************************************)
(* C11.  next_block, next_raw_block, next_packet and next_raw_packet of a  *)
(* reader never return Err(IncompleteBuffer): when the source is exhausted *)
(* and no byte is left unconsumed they return None, and when the source    *)
(* ends in the middle of a block or record they return an I/O truncation   *)
(* error.                                                                  *)
(***************************************************************************)
\* What is left of the source is the beginning of a block or record, not all of it.
MidBlock(r) ==
    /\ Unconsumed(r.reader) # <<>>
    /\ parse_closure(IF IsPcapNg(r) THEN "next_raw_block" ELSE "next_raw_packet",
                     r.parser, Unconsumed(r.reader)).res = Err("IncompleteBuffer")

C11_NeverIncomplete ==
    (got # None /\ got.op \notin {"new", "pcap_new"}) =>
        /\ got.res # Err("IncompleteBuffer")
        /\ (Unconsumed(got.arg.reader) = <<>> => got.res = None)
        /\ (MidBlock(got.arg) => got.res = Err("IoError"))

\* The source ended short of the end of a block, the bytes came in several
\* chunks, and the call returned the truncation error.
C11_Witness ==
    /\ got # None /\ got.op = "next_block"
    /\ MidBlock(got.arg)
    /\ Len(got.arg.reader.source) > 1
    /\ got.res = Err("IoError")

\* The source was exhausted, nothing was left unconsumed, and the call returned None.
C11_WitnessEnd ==
    /\ got # None /\ got.op = "next_packet"
    /\ Unconsumed(got.arg.reader) = <<>>
    /\ got.res = None

\* What the caller of a reader sees of a result: the value, not the bytes left.
Seen(res) == IF res = None THEN None ELSE IF res.ok THEN Some(res.val) ELSE res

(***************************************************************************)
(* C12.  The way the source cuts the capture into chunks is not            *)
(* observable: every call on the reader returns what the same call returns *)
(* when the capture comes in one chunk, and leaves the same section and    *)
(* interfaces and the same number of bytes consumed; a call that ends with *)
(* the truncation error, all its attempts having failed, leaves the parser *)
(* as it was.                                                              *)
(***************************************************************************)
C12_ChunkingInvisible ==
    got # None =>
        /\ Seen(got.res) = Seen(ref.res)
        /\ (reader = None) = (whole = None)
        /\ reader # None =>
              /\ reader.parser = whole.parser
              /\ reader.reader.consumed = whole.reader.consumed
              /\ Unconsumed(reader.reader) = Unconsumed(whole.reader)
        /\ (got.op \notin {"new", "pcap_new"} /\ got.res = Err("IoError")) =>
              reader.parser = got.arg.parser

\* An Interface Description came three bytes at a time: the attempts before the
\* last failed with IncompleteBuffer, and the call returned it and recorded it
\* after the interface the parser had already.
C12_Witness ==
    /\ got # None /\ got.op = "next_block"
    /\ got.arg.reader.buffer = <<>>
    /\ Len(got.arg.reader.source) > 1 /\ Len(Head(got.arg.reader.source)) = 3
    /\ got.res.ok /\ got.res.val.kind = "InterfaceDescription"
    /\ Len(got.arg.parser.interfaces) = 1
    /\ Len(reader.parser.interfaces) = 2

(***************************************************************************)
(* Specification SpecReaderLive: the loop of the fuzz target, with         *)
(* next_block alone, which takes a step whenever it can: the task that runs it is polled until it completes,    *)
(* and a read of the source, which is a slice, never stays pending.  Every *)
(* step of the loop moves pc, so the fairness is stated on pc.             *)
(***************************************************************************)
NextReaderLoop ==
    ReaderNew \/ ReaderNextBlock \/ PcapReaderNew \/ PcapReaderNextPacket \/ ReaderTest

Turn == pc \in {"new", "call", "test"} /\ pc' \in {"call", "test", "done"}

SpecReaderLive == InitReader /\ [][NextReaderLoop]_vars /\ WF_pc(Turn)

(***************************************************************************)
(* C13.  On every finite source the loop that calls next_block, or         *)
(* next_packet, until it returns None comes to its end, also after a call  *)
(* has returned an error.                                                  *)
(***************************************************************************)
C13_LoopTerminates == <>(pc = "done")

(***************************************************************************)
(* C14.  PcapNgParser::new returns InvalidField whenever its input starts  *)
(* with a complete block, in either byte order, that is not a Section      *)
(* Header.                                                                 *)
(***************************************************************************)
\* s starts with a block framed in byte order e: a type, a total length that
\* is a multiple of 4, the body, and the same total length again.
CompleteBlock(e, s) ==
    /\ Len(s) >= 12
    /\ LET total == AsUsize(ReadU32(e, Drop(s, 4)))
       IN  /\ total % 4 = 0 /\ total >= 12 /\ total <= Len(s)
           /\ ReadU32(e, Drop(s, total - 4)) = ReadU32(e, Drop(s, 4))

StartsWithOtherBlock(s) ==
    \E e \in Endiannesses : CompleteBlock(e, s) /\ ReadU32(e, s) # SECTION_HEADER_BLOCK

C14_NewRejectsOtherBlock ==
    (call # None /\ call.op = "new" /\ StartsWithOtherBlock(call.arg)) =>
        call.res = Err("InvalidField")

(***************************************************************************)
(* C15.  A Section Header written by write_block or write_raw_block        *)
(* becomes the current section and leaves the writer without interfaces,   *)
(* so that an Enhanced Packet or Interface Statistics block written right  *)
(* after it is refused with InvalidInterfaceId.                            *)
(***************************************************************************)
\* The last call wrote a Section Header.
SectionHeaderWritten(op) ==
    /\ op.res.ok
    /\ \/ op.op = "write_block" /\ op.block.kind = "SectionHeader"
       \/ op.op = "write_raw_block" /\ op.block.type_ = SECTION_HEADER_BLOCK

WrittenEndianness(op) ==
    IF op.op = "write_block" THEN op.block.endianness
    ELSE IF Take(op.block.body, 4) = MagicBig THEN "Big" ELSE "Little"

C15_Step ==
    /\ SectionHeaderWritten(wrote') =>
          /\ writer'.section.endianness = WrittenEndianness(wrote')
          /\ writer'.interfaces = <<>>
    /\ (SectionHeaderWritten(wrote) /\ wrote'.op = "write_block" /\ wrote'.count = wrote.count + 1
            /\ wrote'.block.kind \in {"EnhancedPacket", "InterfaceStatistics"}) =>
          wrote'.res = InvalidInterfaceId(wrote'.block.interface_id)

C15_SectionHeaderResets == [][C15_Step]_vars

(***************************************************************************)
(* C16.  A write that succeeds returns the number of bytes it appended to  *)
(* the sink: the total length of the block for write_block, 12 plus the    *)
(* length of the body for write_raw_block.                                 *)
(***************************************************************************)
C16_Step ==
    (wrote'.count = wrote.count + 1 /\ wrote'.res.ok) =>
        /\ Take(writer'.sink, Len(writer.sink)) = writer.sink
        /\ wrote'.res.val = Len(writer'.sink) - Len(writer.sink)
        /\ wrote'.op = "write_raw_block" => wrote'.res.val = 12 + Len(wrote'.block.body)

C16_ReturnsBytesAppended == [][C16_Step]_vars

(***************************************************************************)
(* C17.  write_opts_to writes the options in the order of the list, each   *)
(* as its code, the length of its value, the value and zero bytes up to a  *)
(* multiple of 4, and after the last one a single end option (0, 0); for   *)
(* an empty list it writes nothing.  It returns the number of bytes it has  *)
(* written.                                                                *)
(***************************************************************************)
\* The (code, length, value, padding) items that s is made of; an item that
\* does not fit in s has code -1.
RECURSIVE WalkOptions(_, _)
WalkOptions(B, s) ==
    IF s = <<>> THEN <<>>
    ELSE IF Len(s) < 4 \/ Len(s) < 4 + ReadU16(B, Drop(s, 2)) + PadLen(ReadU16(B, Drop(s, 2)))
    THEN <<[code |-> -1]>>
    ELSE LET length == ReadU16(B, Drop(s, 2))
         IN  <<[code |-> ReadU16(B, s), length |-> length, value |-> SubSeq(s, 5, 4 + length),
                padding |-> SubSeq(s, 5 + length, 4 + length + PadLen(length))]>>
                 \o WalkOptions(B, Drop(s, 4 + length + PadLen(length)))

\* The code of an option of a block of kind K, and the bytes of its value.
CodeOf(K, opt) ==
    IF opt.name \in {"CustomBinary", "CustomUtf8", "Unknown"} THEN opt.code
    ELSE (CHOOSE r \in OptionTable(K) : r.name = opt.name).code

ValueOf(K, B, opt) ==
    IF opt.name \in {"CustomBinary", "CustomUtf8"} THEN WriteU32(B, opt.pen) \o opt.value
    ELSE IF opt.name = "Unknown" THEN opt.value
    ELSE LET ty == (CHOOSE r \in OptionTable(K) : r.name = opt.name).ty
         IN  CASE ty = "u8" -> <<opt.value>>
               [] ty = "u32" -> WriteU32(B, opt.value)
               [] ty = "u64" -> WriteU64(B, opt.value)
               [] OTHER -> opt.value

\* Where the options start in the bytes of a block: after the type, the length
\* and the fields of the body that come before them.
OptionsOffset(b) ==
    CASE b.kind = "SectionHeader" -> 24
      [] b.kind = "InterfaceDescription" -> 16
      [] b.kind = "InterfaceStatistics" -> 20
      [] b.kind = "EnhancedPacket" -> 28 + Len(b.data) + PadLen(Len(b.data))

WrittenOptions == SubSeq(encoded.bytes, OptionsOffset(block.b) + 1, Len(encoded.bytes) - 4)

C17_OptionsWritten ==
    (encoded # None /\ block.b.kind \in {"SectionHeader", "InterfaceDescription",
                                         "InterfaceStatistics", "EnhancedPacket"}) =>
        LET opts == block.b.options
            K == block.b.kind
            items == WalkOptions(block.B, WrittenOptions)
        IN  /\ write_opts_to(K, block.B, opts) = Written(WrittenOptions, Len(WrittenOptions))
            /\ IF opts = <<>> THEN WrittenOptions = <<>>
               ELSE /\ Len(items) = Len(opts) + 1
                    /\ \A i \in 1..Len(opts) :
                          /\ items[i].code = CodeOf(K, opts[i])
                          /\ items[i].code # 0
                          /\ items[i].length = Len(ValueOf(K, block.B, opts[i]))
                          /\ items[i].value = ValueOf(K, block.B, opts[i])
                          /\ items[i].padding = Zeros(PadLen(items[i].length))
                    /\ items[Len(items)] = [code |-> 0, length |-> 0, value |-> <<>>, padding |-> <<>>]

\* An Interface Description was written with a comment of one byte, padded
\* with three, then if_tsresol, and then the end option.
C17_Witness ==
    /\ encoded # None
    /\ block.b.kind = "InterfaceDescription"
    /\ block.b.options = <<Opt("Comment", Bytes(1)), Opt("IfTsResol", 6)>>
    /\ block.B = "Little"
    /\ WrittenOptions = <<1, 0, 1, 0, 97, 0, 0, 0, 9, 0, 1, 0, 6, 0, 0, 0, 0, 0, 0, 0>>

(***************************************************************************)
(* C18.  An option list that stops at the end of the block body, with no   *)
(* end option, is accepted: all its options are returned and nothing is    *)
(* left.  The case is an Interface Description whose options are comments. *)
(***************************************************************************)
\* s is one Interface Description frame in byte order e, and the bytes after
\* snaplen are comments, at least one, up to the end of the body.
UnendedComments(e, s) ==
    /\ CompleteBlock(e, s)
    /\ AsUsize(ReadU32(e, Drop(s, 4))) = Len(s)
    /\ ReadU32(e, s) = INTERFACE_DESCRIPTION_BLOCK
    /\ Len(s) > 20
    /\ ReadU16(e, Drop(s, 10)) = 0
    /\ LET items == WalkOptions(e, SubSeq(s, 17, Len(s) - 4))
       IN  \A i \in 1..Len(items) : items[i].code = 1 /\ IsUtf8(items[i].value)

C18_EndOfBodyEndsOptions ==
    (call # None /\ call.op = "next_block" /\ UnendedComments(parser.section.endianness, call.arg)) =>
        /\ call.res.ok
        /\ call.res.rem = <<>>
        /\ LET items == WalkOptions(parser.section.endianness, SubSeq(call.arg, 17, Len(call.arg) - 4))
           IN  call.res.val.options = [i \in 1..Len(items) |-> Opt("Comment", items[i].value)]

(***************************************************************************)
(* Specification SpecOption: opts_from_slice on the option area of a block *)
(* of a kind K, in a byte order B: one option with a code that the kind    *)
(* knows, or with the code 0, and a value of up to MaxOptionLen bytes,     *)
(* padded, and the end option; or the area that write_opts_to writes for   *)
(* one option of that code.                                                *)
(***************************************************************************)
OptionKinds ==
    {"SectionHeader", "InterfaceDescription", "EnhancedPacket", "NameResolution", "InterfaceStatistics"}

OptionArea(B, code, length) ==
    WriteU16(B, code) \o WriteU16(B, length) \o Bytes(length) \o Zeros(PadLen(length))
        \o WriteU16(B, 0) \o WriteU16(B, 0)

InitOption ==
    /\ \E K \in OptionKinds, B \in Endiannesses, length \in 0..MaxOptionLen :
          \E code \in {row.code : row \in OptionTable(K)} \cup {0} :
              /\ block = [K |-> K, B |-> B, code |-> code, length |-> length]
              /\ slice = OptionArea(B, code, length)
    /\ decoded = None
    /\ encoded = None /\ raw_out = None
    /\ ParserIdle /\ WriterIdle /\ ReaderIdle

OptsFromSlice ==
    /\ decoded = None
    /\ decoded' = opts_from_slice(block.K, block.B, slice)
    /\ UNCHANGED <<block, encoded, rawVars, parserVars, writerVars, readerVars>>

\* write_opts_to on one option of the code, whose bytes are then the option area.
OptsWriteTo ==
    /\ decoded = None /\ encoded = None
    /\ \E row \in OptionTable(block.K) :
          /\ row.code = block.code
          /\ \E v \in RowValues(row) :
                /\ encoded' = write_opts_to(block.K, block.B, <<v>>)
                /\ slice' = encoded'.bytes
                /\ block' = [block EXCEPT !.length = ReadU16(block.B, Drop(encoded'.bytes, 2))]
    /\ UNCHANGED <<decoded, raw_out, parserVars, writerVars, readerVars>>

NextOption == OptsFromSlice \/ OptsWriteTo

SpecOption == InitOption /\ [][NextOption]_vars

(***************************************************************************)
(* C19.  An option whose length is mandated is rejected with InvalidField  *)
(* when it declares another length, shorter or longer: Flags 4, DropCount  *)
(* 8, IfMacAddr 6, IfIpv6Addr 17, IfEuIAddr, IfSpeed and IfTsOffset 8,     *)
(* IfTsResol and IfFcsLen 1, NsDnsIpv4Addr 4, NsDnsIpv6Addr 16, and the    *)
(* options 2 to 8 of an Interface Statistics block 8.                      *)
(***************************************************************************)
Mandated(K, code, len) == [K |-> K, code |-> code, len |-> len]

MandatedLengths ==
    {Mandated("EnhancedPacket", 2, 4), Mandated("EnhancedPacket", 4, 8),
     Mandated("InterfaceDescription", 6, 6), Mandated("InterfaceDescription", 5, 17),
     Mandated("InterfaceDescription", 7, 8), Mandated("InterfaceDescription", 8, 8),
     Mandated("InterfaceDescription", 14, 8), Mandated("InterfaceDescription", 9, 1),
     Mandated("InterfaceDescription", 13, 1),
     Mandated("NameResolution", 3, 4), Mandated("NameResolution", 4, 16)}
        \cup {Mandated("InterfaceStatistics", code, 8) : code \in 2..8}

C19_MandatedLengths ==
    \A m \in MandatedLengths :
        (decoded # None /\ block.K = m.K /\ block.code = m.code /\ block.length # m.len) =>
            decoded = Err("InvalidField")

(***************************************************************************)
(* Specification SpecRecode: Block::from_slice on a block that holds an    *)
(* element the library does not know (the block itself, an option of an    *)
(* Interface Description, a record of a Name Resolution block) with a      *)
(* value of up to MaxDataLen bytes and padding bytes that are zero or not, *)
(* and then Block::write_to on the block decoded, in the same byte order.  *)
(***************************************************************************)
UNKNOWN_TYPE == <<0, 0, 0, 11>>

\* Codes that no option and no record has.
UnknownCodes == {99, 4660}

\* Padding as a writer other than this one may leave it.
PadFills == {0, 170}

Padding(n, fill) == [i \in 1..PadLen(n) |-> fill]

RecodeInput(B, what, code, n, fill) ==
    CASE what = "block" -> FuzzFrame(B, UNKNOWN_TYPE, Bytes(n) \o Padding(n, fill))
      [] what = "option" ->
            FuzzFrame(B, INTERFACE_DESCRIPTION_BLOCK,
                      WriteU16(B, 1) \o WriteU16(B, 0) \o WriteU32(B, AsU32(65535))
                          \o WriteU16(B, code) \o WriteU16(B, n) \o Bytes(n) \o Padding(n, fill)
                          \o WriteU16(B, 0) \o WriteU16(B, 0))
      [] what = "record" ->
            FuzzFrame(B, NAME_RESOLUTION_BLOCK,
                      WriteU16(B, code) \o WriteU16(B, n) \o Bytes(n) \o Padding(n, fill)
                          \o WriteU16(B, 0) \o WriteU16(B, 0))

InitRecode ==
    /\ \E B \in Endiannesses, what \in {"block", "option", "record"}, code \in UnknownCodes,
             n \in 0..MaxDataLen, fill \in PadFills :
          /\ block = [B |-> B, what |-> what, code |-> code, n |-> n, fill |-> fill]
          /\ slice = RecodeInput(B, what, code, n, fill)
    /\ decoded = None
    /\ encoded = None /\ raw_out = None
    /\ ParserIdle /\ WriterIdle /\ ReaderIdle

RecodeDecode ==
    /\ decoded = None
    /\ decoded' = Block_from_slice(block.B, slice)
    /\ UNCHANGED <<block, encoded, rawVars, parserVars, writerVars, readerVars>>

RecodeEncode ==
    /\ decoded # None /\ decoded.ok
    /\ encoded = None
    /\ encoded' = Block_write_to(block.B, decoded.val)
    /\ UNCHANGED <<block, decoded, rawVars, parserVars, writerVars, readerVars>>

NextRecode == RecodeDecode \/ RecodeEncode

SpecRecode == InitRecode /\ [][NextRecode]_vars

\* The element is decoded with its type or code, its length and its value as they are in the input.
KeptVerbatim ==
    /\ decoded.ok /\ decoded.rem = <<>>
    /\ CASE block.what = "block" ->
                decoded.val = UnknownBlock_new(UNKNOWN_TYPE, ReadU32(block.B, Drop(slice, 4)),
                                               SubSeq(slice, 9, Len(slice) - 4))
         [] block.what = "option" ->
                decoded.val.options = <<UnknownOption(block.code, block.n, Bytes(block.n))>>
         [] block.what = "record" ->
                decoded.val.records = <<[rec |-> "Unknown", type_ |-> block.code, length |-> block.n,
                                         value |-> Bytes(block.n)]>>

(***************************************************************************)
(* C20 as claimed.  An unknown block, option or record is decoded with its *)
(* type or code, its length and its value kept verbatim, and encoding what *)
(* was decoded gives the original bytes back, padding included.            *)
(***************************************************************************)
C20_Original ==
    /\ decoded # None => KeptVerbatim
    /\ encoded # None => encoded.bytes = slice

(***************************************************************************)
(* C20.  An unknown block, option or record is decoded with its type or    *)
(* code, its length and its value kept verbatim, and encoding what was     *)
(* decoded gives the original bytes back when the padding bytes of the     *)
(* option or record were zero: the padding is written as zeros.            *)
(***************************************************************************)
ZeroPadded == block.what = "block" \/ block.fill = 0 \/ PadLen(block.n) = 0

Repadded(s) ==
    IF ZeroPadded THEN s
    ELSE LET at == (IF block.what = "option" THEN 20 ELSE 12) + block.n
         IN  [i \in 1..Len(s) |-> IF i > at /\ i <= at + PadLen(block.n) THEN 0 ELSE s[i]]

C20_UnknownRoundTrip ==
    /\ decoded # None => KeptVerbatim
    /\ encoded # None => encoded.bytes = Repadded(slice)

\* An unknown option of one byte was decoded, and written back with its three bytes of padding.
C20_Witness ==
    /\ encoded # None
    /\ block.what = "option" /\ block.n = 1 /\ block.fill = 0 /\ block.B = "Little"
    /\ block.code = 99
    /\ decoded.val.options = <<UnknownOption(99, 1, <<97>>)>>
    /\ encoded.bytes = slice
    /\ SubSeq(slice, 17, 24) = <<99, 0, 1, 0, 97, 0, 0, 0>>

(***************************************************************************)
(* Specification SpecPcap: PcapHeader::from_slice on the bytes of a PCAP   *)
(* header (one of the four magic numbers or another one, the six fields    *)
(* in the byte order of the magic number, up to MaxTrail bytes after the   *)
(* header, or fewer than 24 bytes of it), and then PcapHeader::write_to    *)
(* on the header decoded.                                                  *)
(***************************************************************************)
\* The first four bytes of a PCAP file, and what they say.
PcapMagics ==
    { [bytes |-> <<161, 178, 195, 212>>, endianness |-> "Big", ts_resolution |-> "MicroSecond"],
      [bytes |-> <<161, 178, 60, 77>>, endianness |-> "Big", ts_resolution |-> "NanoSecond"],
      [bytes |-> <<212, 195, 178, 161>>, endianness |-> "Little", ts_resolution |-> "MicroSecond"],
      [bytes |-> <<77, 60, 178, 161>>, endianness |-> "Little", ts_resolution |-> "NanoSecond"] }

\* What else a file may start with: the type of a Section Header, a magic number with its
\* halves exchanged, and zeros.
OtherMagics == { <<10, 13, 13, 10>>, <<195, 212, 161, 178>>, <<0, 0, 0, 0>> }

PcapHeaderLens == {0, 3, 4, 23} \cup 24..(24 + MaxTrail)

PcapHeaderBytes(h) ==
    h.magic \o WriteU16(h.B, h.version_major) \o WriteU16(h.B, h.version_minor)
        \o WriteU32(h.B, h.ts_correction) \o WriteU32(h.B, h.ts_accuracy)
        \o WriteU32(h.B, h.snaplen) \o WriteU32(h.B, h.datalink) \o [i \in 1..MaxTrail |-> 200 + i]

InitPcap ==
    /\ \E magic \in {m.bytes : m \in PcapMagics} \cup OtherMagics, B \in Endiannesses,
          version_major \in {2, 258}, version_minor \in {4, 65535},
          ts_correction \in {AsU32(0), <<255, 255, 255, 254>>, <<1, 2, 3, 4>>},
          ts_accuracy \in {AsU32(0), <<5, 6, 7, 8>>}, snaplen \in {AsU32(65535), <<128, 0, 0, 1>>},
          datalink \in {AsU32(1), <<0, 1, 2, 3>>}, len \in PcapHeaderLens :
          /\ \A m \in PcapMagics : m.bytes = magic => m.endianness = B
          /\ block = [magic |-> magic, B |-> B, version_major |-> version_major,
                      version_minor |-> version_minor, ts_correction |-> ts_correction,
                      ts_accuracy |-> ts_accuracy, snaplen |-> snaplen, datalink |-> datalink]
          /\ slice = Take(PcapHeaderBytes(block), len)
    /\ decoded = None
    /\ encoded = None /\ raw_out = None
    /\ ParserIdle /\ WriterIdle /\ ReaderIdle

PcapFromSlice ==
    /\ decoded = None
    /\ decoded' = PcapHeader_from_slice(slice)
    /\ UNCHANGED <<block, encoded, rawVars, parserVars, writerVars, readerVars>>

PcapWriteTo ==
    /\ decoded # None /\ decoded.ok
    /\ encoded = None
    /\ encoded' = PcapHeader_write_to(decoded.val)
    /\ UNCHANGED <<block, decoded, rawVars, parserVars, writerVars, readerVars>>

NextPcap == PcapFromSlice \/ PcapWriteTo

SpecPcap == InitPcap /\ [][NextPcap]_vars

(***************************************************************************)
(* C21.  PcapHeader::from_slice on fewer than 24 bytes gives               *)
(* IncompleteBuffer whatever the bytes are; on 24 bytes or more it gives   *)
(* InvalidField for a magic number that is none of the four, and otherwise *)
(* the byte order and the resolution the magic number stands for, the six  *)
(* fields read in that byte order, and the input without its first 24      *)
(* bytes.                                                                  *)
(***************************************************************************)
C21_HeaderFromSlice ==
    decoded # None =>
        IF Len(slice) < 24 THEN decoded = Err("IncompleteBuffer")
        ELSE IF \A m \in PcapMagics : m.bytes # block.magic THEN decoded = Err("InvalidField")
        ELSE \E m \in PcapMagics :
                /\ m.bytes = block.magic
                /\ decoded = Ok(Drop(slice, 24),
                                PcapHeader(block.version_major, block.version_minor, block.ts_correction,
                                           block.ts_accuracy, block.snaplen, DataLink_from(block.datalink),
                                           m.ts_resolution, m.endianness))

\* A little-endian nanosecond header followed by two bytes was decoded.
C21_Witness ==
    /\ decoded # None /\ decoded.ok
    /\ block.magic = <<77, 60, 178, 161>>
    /\ Len(slice) = 26
    /\ decoded.rem = <<201, 202>>
    /\ decoded.val.endianness = "Little" /\ decoded.val.ts_resolution = "NanoSecond"
    /\ decoded.val.version_major = 258 /\ SubSeq(slice, 5, 6) = <<2, 1>>
    /\ decoded.val.snaplen = <<128, 0, 0, 1>> /\ SubSeq(slice, 17, 20) = <<1, 0, 0, 128>>

(***************************************************************************)
(* C22.  A 24-byte PCAP header with one of the four magic numbers, decoded *)
(* by PcapHeader::from_slice and written by write_to, gives the same 24    *)
(* bytes, and write_to returns 24.                                         *)
(***************************************************************************)
C22_HeaderRoundTrip ==
    /\ decoded # None /\ Len(slice) = 24 /\ (\E m \in PcapMagics : m.bytes = block.magic) => decoded.ok
    /\ encoded # None => encoded = Written(Take(slice, 24), 24)

\* A big-endian nanosecond header of 24 bytes was decoded and written back.
C22_Witness ==
    /\ encoded # None
    /\ Len(slice) = 24
    /\ block.magic = <<161, 178, 60, 77>>
    /\ block.ts_correction = <<255, 255, 255, 254>> /\ block.datalink = <<0, 1, 2, 3>>
    /\ encoded.bytes = slice

(***************************************************************************)
(* C23.  Once the framing of a block has been decoded (its type, its       *)
(* length, its body and its trailer are all in the slice), next_block does *)
(* not return IncompleteBuffer, whatever the body holds: a malformed body  *)
(* gives InvalidField or Utf8Error.                                        *)
(***************************************************************************)
C23_Step ==
    (/\ parser # None
     /\ call' # None /\ call'.op = "next_block"
     /\ next_raw_block(parser, call'.arg).res.ok) =>
        call'.res # Err("IncompleteBuffer")

C23_BodyNeverIncomplete == [][C23_Step]_vars

(***************************************************************************)
(* C24.  opts_from_slice ends the list at a TLV only when both its code    *)
(* and its length are 0: at a TLV with the code 0 and another length it    *)
(* does not return the options read so far with the bytes after the four   *)
(* bytes of that TLV.                                                      *)
(***************************************************************************)
C24_TerminatorNeedsZeroLength ==
    (decoded # None /\ block.code = 0 /\ block.length # 0) =>
        decoded # Ok(Drop(slice, 4), <<>>)

(***************************************************************************)
(* Specification SpecPacket: EnhancedPacketBlock::from_slice on the body   *)
(* of an Enhanced Packet block (a timestamp of two 32-bit words, a         *)
(* captured length of up to MaxDataLen + 1 or far beyond the body, the     *)
(* data, padding bytes, no option or one comment and the end option), or   *)
(* on the first bytes of it, and then EnhancedPacketBlock::write_to on the *)
(* block decoded.                                                          *)
(***************************************************************************)
\* Words of a timestamp: zero, one, 10^9, the sign bit and all ones.
TimestampWords == {<<0, 0, 0, 0>>, <<0, 0, 0, 1>>, <<59, 154, 202, 0>>, <<128, 0, 0, 0>>, <<255, 255, 255, 255>>}

CapturedLens == {AsU32(n) : n \in 0..(MaxDataLen + 1)} \cup {<<0, 1, 0, 0>>, <<255, 255, 255, 255>>}

PacketOptionAreas(B) ==
    {<<>>, WriteU16(B, 1) \o WriteU16(B, 2) \o <<104, 105, 0, 0>> \o WriteU16(B, 0) \o WriteU16(B, 0)}

\* The body: the five fixed fields, the data that is there, padding bytes that are not zero, the options.
PacketBody(p, area) ==
    LET n == IF AsUsize(p.captured_len) <= MaxDataLen + 1 THEN AsUsize(p.captured_len) ELSE MaxDataLen
    IN  WriteU32(p.B, AsU32(0)) \o WriteU32(p.B, p.timestamp_high) \o WriteU32(p.B, p.timestamp_low)
            \o WriteU32(p.B, p.captured_len) \o WriteU32(p.B, AsU32(1500))
            \o Bytes(n) \o Padding(n, 170) \o area

InitPacket ==
    /\ \E B \in Endiannesses, timestamp_high \in TimestampWords, timestamp_low \in TimestampWords,
          captured_len \in CapturedLens, cut \in 0..(MaxDataLen + 21) :
          \E area \in PacketOptionAreas(B) :
              /\ block = [B |-> B, timestamp_high |-> timestamp_high, timestamp_low |-> timestamp_low,
                          captured_len |-> captured_len]
              /\ cut <= Len(PacketBody(block, area))
              /\ slice = Take(PacketBody(block, area), Len(PacketBody(block, area)) - cut)
    /\ decoded = None
    /\ encoded = None /\ raw_out = None
    /\ ParserIdle /\ WriterIdle /\ ReaderIdle

PacketFromSlice ==
    /\ decoded = None
    /\ decoded' = EnhancedPacketBlock_from_slice(block.B, slice)
    /\ UNCHANGED <<block, encoded, rawVars, parserVars, writerVars, readerVars>>

PacketWriteTo ==
    /\ decoded # None /\ decoded.ok
    /\ encoded = None
    /\ encoded' = EnhancedPacketBlock_write_to(block.B, decoded.val)
    /\ UNCHANGED <<block, decoded, rawVars, parserVars, writerVars, readerVars>>

NextPacket == PacketFromSlice \/ PacketWriteTo

SpecPacket == InitPacket /\ [][NextPacket]_vars

(***************************************************************************)
(* C25.  EnhancedPacketBlock::from_slice returns InvalidField when the     *)
(* body has fewer than 20 bytes or when captured_len plus its padding is   *)
(* more than the bytes after the five fixed fields; otherwise the data is  *)
(* the first captured_len of those bytes, the padding is skipped and the   *)
(* options are read from the bytes after the data and the padding.         *)
(***************************************************************************)
C25_PacketFromSlice ==
    decoded # None =>
        LET captured_len == AsUsize(block.captured_len)
            pad == (4 - (block.captured_len[4] % 4)) % 4
        IN  IF Len(slice) < 20 \/ captured_len + pad > Len(slice) - 20 THEN decoded = Err("InvalidField")
            ELSE LET o == opts_from_slice("EnhancedPacket", block.B, Drop(slice, 20 + captured_len + pad))
                 IN  IF ~o.ok THEN decoded = o
                     ELSE /\ decoded.ok
                          /\ decoded.val.data = SubSeq(slice, 21, 20 + captured_len)
                          /\ decoded.val.options = o.val
                          /\ decoded.rem = o.rem

\* A captured length of 5: three padding bytes, and then the comment "hi".
C25_Witness ==
    /\ decoded # None /\ decoded.ok
    /\ block.captured_len = AsU32(5) /\ block.B = "Big"
    /\ SubSeq(slice, 21, 32) = <<97, 98, 99, 100, 101, 170, 170, 170, 0, 1, 0, 2>>
    /\ decoded.val.data = <<97, 98, 99, 100, 101>>
    /\ decoded.val.options = <<Opt("Comment", <<104, 105>>)>>
    /\ decoded.rem = <<>>

(***************************************************************************)
(* C27.  The timestamp decoded from the words high and low of an Enhanced  *)
(* Packet body is (high << 32) | low nanoseconds, and writing the decoded  *)
(* block gives the same two words back, for every value of the 64 bits.    *)
(***************************************************************************)
C27_TimestampRoundTrip ==
    /\ (decoded # None /\ decoded.ok) =>
          /\ decoded.val.timestamp.nanos < 1000000000
          /\ Duration_as_nanos(decoded.val.timestamp) = Zeros(8) \o block.timestamp_high \o block.timestamp_low
    /\ encoded # None => SubSeq(encoded.bytes, 5, 12) = SubSeq(slice, 5, 12)

\* The largest timestamp, 2^64 - 1 ns, which is 18446744073 s and 709551615 ns, was written back.
C27_Witness ==
    /\ encoded # None
    /\ block.timestamp_high = <<255, 255, 255, 255>> /\ block.timestamp_low = <<255, 255, 255, 255>>
    /\ decoded.val.timestamp = Duration(<<0, 0, 0, 4, 75, 130, 250, 9>>, 709551615)
    /\ SubSeq(encoded.bytes, 5, 12) = <<255, 255, 255, 255, 255, 255, 255, 255>>

(***************************************************************************)
(* C26.  An option with the code 10 (IfTzone) of an Interface Description  *)
(* is never decoded, whatever length it declares: a length of 1 fails with *)
(* IncompleteBuffer on the read of four bytes, and any other length gives  *)
(* InvalidField.  The IfTzone option that write_opts_to writes declares a  *)
(* length of 4, so it cannot be read back.                                 *)
(***************************************************************************)
C26_IfTzoneNeverParses ==
    (decoded # None /\ block.K = "InterfaceDescription" /\ block.code = 10) =>
        /\ decoded = IF block.length = 1 THEN Err("IncompleteBuffer") ELSE Err("InvalidField")
        /\ encoded # None => block.length = 4

\* The option IfTzone(0x01020304) was written, big-endian, and read: InvalidField.
C26_Witness ==
    /\ encoded # None
    /\ block.K = "InterfaceDescription" /\ block.code = 10
    /\ slice = <<0, 10, 0, 4, 1, 2, 3, 4, 0, 0, 0, 0>>
    /\ decoded = Err("InvalidField")

\* The option declared one byte, and the read of four bytes failed.
C26_WitnessOneByte ==
    /\ encoded = None
    /\ block.K = "InterfaceDescription" /\ block.code = 10 /\ block.length = 1
    /\ decoded = Err("IncompleteBuffer")

(***************************************************************************)
(* Specification SpecRetry: a driver that holds a PcapNgParser and gives   *)
(* it the bytes that have arrived so far, as PcapNgReader does: `slice` is *)
(* the window of the unread bytes `src` that have arrived; a call of       *)
(* next_block or of next_raw_block is made on the window, and is made      *)
(* again on a longer window after more bytes have arrived.  The captures   *)
(* are a Section Header and up to MaxRead blocks, among them an Interface  *)
(* Description and a Section Header that do not decode.                    *)
(***************************************************************************)
\* An Interface Description frame whose reserved field is not zero.
MalformedInterface == UnknownBlock_new(INTERFACE_DESCRIPTION_BLOCK, AsU32(20), <<0, 1, 1, 1, 0, 0, 255, 255>>)

\* A Section Header frame without the byte-order magic.
MalformedSection ==
    UnknownBlock_new(SECTION_HEADER_BLOCK, AsU32(28), <<1, 2, 3, 4, 0, 1, 0, 0, 255, 255, 255, 255, 255, 255, 255, 255>>)

RetryPool ==
    {Item(PlainSection("Big"), FALSE), Item(PlainSection("Little"), FALSE), Item(Interface(<<>>), FALSE),
     Item(MalformedInterface, FALSE), Item(MalformedSection, FALSE), Item(Packet(0, Bytes(2)), FALSE)}

RetryFiles ==
    {EncodeItems(<<Item(PlainSection(e), FALSE)>> \o items, e) :
        e \in Endiannesses, items \in SeqsUpTo(RetryPool, MaxRead)}

\* Bytes that arrive at once: a word, or all that is left.
ArriveSizes == {4, 1024}

InitRetry ==
    /\ file \in RetryFiles
    /\ src = file
    /\ slice = <<>>
    /\ parser = None
    /\ returned = <<>>
    /\ call = None
    /\ raw_out = None
    /\ CodecIdle /\ WriterIdle /\ ReaderIdle

\* More bytes arrive.
Arrive ==
    /\ Len(slice) < Len(src)
    /\ \E n \in ArriveSizes :
          slice' = Take(src, IF Len(slice) + n < Len(src) THEN Len(slice) + n ELSE Len(src))
    /\ UNCHANGED <<raw_out, file, src, parser, returned, call, codecVars, writerVars, readerVars>>

RetryNew ==
    /\ parser = None
    /\ LET r == PcapNgParser_new(slice)
       IN  /\ call' = Call("new", slice, r)
           /\ IF r.ok
              THEN /\ parser' = r.val
                   /\ src' = Drop(src, Len(slice) - Len(r.rem))
                   /\ slice' = r.rem
                   /\ returned' = <<Chunk(slice, r.rem, "Big")>>
              ELSE UNCHANGED <<parser, src, slice, returned>>
    /\ UNCHANGED <<raw_out, file, codecVars, writerVars, readerVars>>

Retry(op, c) ==
    /\ call' = Call(op, slice, c.res)
    /\ parser' = c.parser
    /\ IF c.res.ok
       THEN /\ src' = Drop(src, Len(slice) - Len(c.res.rem))
            /\ slice' = c.res.rem
            /\ returned' = Append(returned, Chunk(slice, c.res.rem, parser.section.endianness))
       ELSE UNCHANGED <<src, slice, returned>>
    /\ UNCHANGED <<raw_out, file, codecVars, writerVars, readerVars>>

RetryNextBlock == parser # None /\ Retry("next_block", next_block(parser, slice))

RetryNextRawBlock == parser # None /\ Retry("next_raw_block", next_raw_block(parser, slice))

NextRetry == Arrive \/ RetryNew \/ RetryNextBlock \/ RetryNextRawBlock

SpecRetry == InitRetry /\ [][NextRetry]_vars

(***************************************************************************)
(* C28.  A call of next_block or next_raw_block that returns an error,     *)
(* IncompleteBuffer included, leaves the section and the interfaces of the *)
(* parser as they were before the call; so the interfaces of the parser    *)
(* are always the Interface Descriptions returned since the last Section   *)
(* Header, each once, however often a call was made again on a block that  *)
(* had not fully arrived.                                                  *)
(***************************************************************************)
C28_Step ==
    (/\ parser # None
     /\ call' # None /\ call'.op \in {"next_block", "next_raw_block"}
     /\ ~call'.res.ok) =>
        parser' = parser

C28_ErrorLeavesParser ==
    /\ [][C28_Step]_vars
    /\ [](parser # None => parser.interfaces = SectionInterfaces(returned))

\* An Interface Description was returned by a call that had failed with
\* IncompleteBuffer on a shorter window of the same bytes, and the parser has
\* this one interface.
C28_Witness ==
    /\ call # None /\ call.op = "next_block" /\ call.res.ok
    /\ call.res.val.kind = "InterfaceDescription"
    /\ Len(call.arg) = 20
    /\ next_block([parser EXCEPT !.interfaces = <<>>], Take(call.arg, 16)).res = Err("IncompleteBuffer")
    /\ parser.interfaces = <<call.res.val>>

\* With one interface in the parser, a call on sixteen bytes of an Interface
\* Description returned IncompleteBuffer.
C28_WitnessIncomplete ==
    /\ call # None /\ call.op \in {"next_block", "next_raw_block"}
    /\ call.res = Err("IncompleteBuffer")
    /\ Len(call.arg) = 16 /\ ReadU32(parser.section.endianness, call.arg) = INTERFACE_DESCRIPTION_BLOCK
    /\ Len(parser.interfaces) = 1

\* With one interface in the parser, a call met a Section Header that does not decode.
C28_WitnessMalformed ==
    /\ call # None /\ call.op \in {"next_block", "next_raw_block"}
    /\ call.res = Err("InvalidField")
    /\ Take(call.arg, 4) = SECTION_HEADER_BLOCK
    /\ Len(parser.interfaces) = 1

(***************************************************************************)
(* C29.  A Section Header written by with_section_header or by write_block *)
(* has its type, its two length words, its byte-order magic, its version   *)
(* and its section length in its own byte order, whatever the byte order   *)
(* of the section before it, and it becomes the section of the writer;     *)
(* every other block that write_block writes is in the byte order of the   *)
(* section of the writer, which only a Section Header changes.             *)
(***************************************************************************)
\* The bytes are a Section Header block b, every field in the byte order e.
SectionHeaderIn(e, b, bytes) ==
    /\ Len(bytes) >= 28
    /\ ReadU32(e, bytes) = SECTION_HEADER_BLOCK
    /\ AsUsize(ReadU32(e, Drop(bytes, 4))) = Len(bytes)
    /\ ReadU32(e, Drop(bytes, 8)) = <<26, 43, 60, 77>>
    /\ ReadU16(e, Drop(bytes, 12)) = b.major_version
    /\ ReadU16(e, Drop(bytes, 14)) = b.minor_version
    /\ ReadU64(e, Drop(bytes, 16)) = b.section_length
    /\ AsUsize(ReadU32(e, Drop(bytes, Len(bytes) - 4))) = Len(bytes)

C29_Constructed ==
    wrote.op = "with_section_header" =>
        /\ SectionHeaderIn(wrote.block.endianness, wrote.block, writer.sink)
        /\ writer.section = wrote.block

C29_Step ==
    (wrote'.count = wrote.count + 1 /\ wrote'.res.ok) =>
        LET b == wrote'.block
            new == Drop(writer'.sink, Len(writer.sink))
        IN  /\ (wrote'.op = "write_block" /\ b.kind = "SectionHeader") =>
                  /\ SectionHeaderIn(b.endianness, b, new)
                  /\ writer'.section = b
            /\ (wrote'.op = "write_block" /\ b.kind # "SectionHeader") =>
                  /\ new = Block_write_to(writer.section.endianness, b).bytes
                  /\ ReadU32(writer.section.endianness, new) = BlockCode(b)
                  /\ AsUsize(ReadU32(writer.section.endianness, Drop(new, 4))) = Len(new)
                  /\ writer'.section = writer.section
            /\ (wrote'.op = "write_raw_block" /\ b.type_ # SECTION_HEADER_BLOCK) =>
                  writer'.section = writer.section

C29_SectionHeaderOwnOrder == []C29_Constructed /\ [][C29_Step]_vars

\* A writer made with a big-endian section wrote a little-endian Section
\* Header, and then an Interface Description, little-endian too.
C29_Witness ==
    /\ wrote.op = "write_block" /\ wrote.count = 2 /\ wrote.res.ok
    /\ wrote.block = Interface(<<>>)
    /\ writer.section.endianness = "Little"
    /\ SubSeq(writer.sink, 1, 12) = <<10, 13, 13, 10, 0, 0, 0, 28, 26, 43, 60, 77>>
    /\ SubSeq(writer.sink, 29, 44) = <<10, 13, 13, 10, 28, 0, 0, 0, 77, 60, 43, 26, 1, 0, 0, 0>>
    /\ SubSeq(writer.sink, 57, 64) = <<1, 0, 0, 0, 20, 0, 0, 0>>

(***************************************************************************)
(* A raw copy: every raw block that PcapNgParser::next_raw_block takes     *)
(* from a capture is handed to PcapNgWriter::write_raw_block.  The         *)
(* captures are sections of either byte order with blocks that every       *)
(* decoder accepts; the first Section Header is consumed by                *)
(* PcapNgParser::new and written by PcapNgWriter::with_section_header.     *)
(***************************************************************************)
RawCopyPool ==
    {Item(PlainSection("Big"), FALSE), Item(PlainSection("Little"), FALSE),
     Item(Interface(<<>>), FALSE), Item(Packet(0, Bytes(2)), FALSE),
     Item([kind |-> "SimplePacket", original_len |-> AsU32(4), data |-> Bytes(4)], FALSE)}

RawCopyFiles ==
    {EncodeItems(<<Item(PlainSection(e), FALSE)>> \o items, e) :
        e \in Endiannesses, items \in {q \in SeqsUpTo(RawCopyPool, MaxBlocks) : ValidItems(q)}}

InitRawCopy ==
    /\ file \in RawCopyFiles
    /\ src = file
    /\ parser = None
    /\ returned = <<>>
    /\ call = None
    /\ writer = None
    /\ wrote = None
    /\ RawIdle /\ CodecIdle /\ ReaderIdle

\* PcapNgParser::new(src) and PcapNgWriter::with_section_header(Vec::new(), parser.section())
RawOpen ==
    /\ call = None
    /\ LET r == PcapNgParser_new(src)
       IN  /\ call' = Call("new", src, r)
           /\ IF r.ok
              THEN /\ parser' = r.val
                   /\ src' = r.rem
                   /\ writer' = with_section_header(r.val.section)
                   /\ wrote' = Op("with_section_header", r.val.section, Some(0), 0)
              ELSE UNCHANGED <<parser, src, writer, wrote>>
    /\ UNCHANGED <<file, returned, rawVars, codecVars, readerVars>>

\* One turn of the copy: parser.next_raw_block(src), then writer.write_raw_block(&raw)
RawCopy ==
    /\ parser # None
    /\ call.res.ok /\ wrote.res.ok
    /\ src # <<>>
    /\ LET c == next_raw_block(parser, src)
       IN  /\ call' = Call("next_raw_block", src, c.res)
           /\ parser' = c.parser
           /\ IF c.res.ok
              THEN LET w == write_raw_block(writer, c.res.val)
                   IN  /\ src' = c.res.rem
                       /\ writer' = w.writer
                       /\ wrote' = Op("write_raw_block", c.res.val, w.res, wrote.count + 1)
              ELSE UNCHANGED <<src, writer, wrote>>
    /\ UNCHANGED <<file, returned, rawVars, codecVars, readerVars>>

NextRawCopy == RawOpen \/ RawCopy

SpecRawCopy == InitRawCopy /\ [][NextRawCopy]_vars

\* C30: for a capture whose sections may differ in endianness, every raw
\* block taken by next_raw_block is written by write_raw_block without an
\* error, and what has been written so far, followed by what is still to be
\* read, is the capture: each raw block, a raw Section Header that changes
\* the endianness included, is emitted byte for byte as it was read.
C30_RawCopyRoundTrip ==
    (parser # None /\ wrote # None) =>
        /\ call.res.ok /\ wrote.res.ok
        /\ writer.sink \o src = file

\* The raw copy of a capture that keeps one byte order is the capture.
C30_SameOrderCopied ==
    /\ wrote # None /\ wrote.op = "write_raw_block" /\ wrote.count = MaxBlocks
    /\ src = <<>> /\ writer.sink = file
    /\ parser.interfaces # <<>>

====
